---- MODULE Spec2Model ----
(***************************************************************************)
(* The transaction-creation screen of the point-of-sale client: the cart,  *)
(* the price override, the submission form and the submission request.     *)
(* The repository holds two implementations of the screen,                 *)
(*   src/unnamed/part_004                      (debounced addToCart)       *)
(*   src/app/components/TransactionCreate.tsx  (scannedUnitCodes list)     *)
(* The variable impl says which of the two is mounted.                     *)
(*                                                                         *)
(* The catalog is loaded page by page by fetchUnits of the two screens and *)
(* by fetchAllProducts of src/app/components/Inventory.tsx, which retries  *)
(* a page and keeps the result in a cache that the screen focus consults.  *)
(* load[l] is the position and the locals of one call of the loader.       *)
(*                                                                         *)
(* Each part of the client has its specification: Spec and SpecForm (cart  *)
(* and submission), SpecSubmit (submission beside a reload), SpecScan (the *)
(* scanner), SpecUnits (unit codes of a loaded catalog), SpecLoad,         *)
(* SpecFocus and SpecRace (the loaders), SpecFilter and SpecPages (the     *)
(* inventory list), SpecDate (the transaction list and its dates).         *)
(*                                                                         *)
(* Strings the code inspects character by character (unit codes, the text  *)
(* of the price override, the prices sent by the API) are sequences of     *)
(* one-character strings; strings the code only stores or compares are     *)
(* TLA+ strings.  An optional value (x | null) is a sequence of length at  *)
(* most one: None or Some(x).  All amounts are integers.                   *)
(***************************************************************************)
EXTENDS Integers, Sequences, FiniteSets, TLC

\* ------------------------------------------------------------------ bounds
MaxCart  == 2   \* longest cart explored
MaxBurst == 2   \* cart insertions handled on one committed render
MaxEdits == 1   \* user events handled while a submission is awaited
MaxCatalog == 2 \* longest inventory catalog the list view is filtered over

\* ----------------------------------------------------------- basic values
None == <<>>
Some(x) == <<x>>
NaN == None

Max(a, b) == IF a >= b THEN a ELSE b

Min(a, b) == IF a <= b THEN a ELSE b

Part004 == "part_004"
TxCreate == "TransactionCreate.tsx"
Impls == {Part004, TxCreate}

\* ------------------------------------------------- JavaScript string tools
Digits == <<"0", "1", "2", "3", "4", "5", "6", "7", "8", "9">>
IsDigit(c) == \E i \in 1..10 : Digits[i] = c
DigitValue(c) == (CHOOSE i \in 1..10 : Digits[i] = c) - 1

UpperLetters == <<"A", "B", "C", "I", "N", "T", "U">>
LowerLetters == <<"a", "b", "c", "i", "n", "t", "u">>

LowerChar(c) ==
  IF \E i \in 1..Len(UpperLetters) : UpperLetters[i] = c
  THEN LowerLetters[CHOOSE i \in 1..Len(UpperLetters) : UpperLetters[i] = c]
  ELSE c

UpperChar(c) ==
  IF \E i \in 1..Len(LowerLetters) : LowerLetters[i] = c
  THEN UpperLetters[CHOOSE i \in 1..Len(LowerLetters) : LowerLetters[i] = c]
  ELSE c

\* String.prototype.toLowerCase / toUpperCase, character by character
toLowerCase(s) == [i \in 1..Len(s) |-> LowerChar(s[i])]
toUpperCase(s) == [i \in 1..Len(s) |-> UpperChar(s[i])]

RECURSIVE LeadingDigits(_)
LeadingDigits(s) ==
  IF s = <<>> \/ ~IsDigit(Head(s)) THEN <<>>
  ELSE <<Head(s)>> \o LeadingDigits(Tail(s))

RECURSIVE DecimalValue(_)
DecimalValue(d) ==
  IF d = <<>> THEN 0
  ELSE 10 * DecimalValue(SubSeq(d, 1, Len(d) - 1)) + DigitValue(d[Len(d)])

RECURSIVE TrimStart(_)
TrimStart(s) == IF s # <<>> /\ Head(s) = " " THEN TrimStart(Tail(s)) ELSE s

\* parseFloat on integer texts: leading blanks are skipped, an optional sign
\* is read, then the longest run of digits; whatever follows is ignored and a
\* text with no digit at that place is NaN.
parseFloat(s) ==
  LET t      == TrimStart(s)
      signed == t # <<>> /\ Head(t) \in {"-", "+"}
      body   == IF signed THEN Tail(t) ELSE t
      d      == LeadingDigits(body)
  IN  IF d = <<>> THEN NaN
      ELSE IF signed /\ Head(t) = "-" THEN Some(0 - DecimalValue(d))
      ELSE Some(DecimalValue(d))

isNaN(r) == r = NaN

\* JavaScript comparisons with a possibly-NaN left operand: NaN compares false
GreaterThan(r, n) == ~isNaN(r) /\ r[1] > n
LessThan(r, n) == ~isNaN(r) /\ r[1] < n

\* r || d for a number r: NaN and 0 are falsy
OrElse(r, d) == IF isNaN(r) \/ r[1] = 0 THEN d ELSE r[1]

\* Number.prototype.toString for a non-negative integer
RECURSIVE NumberToString(_)
NumberToString(n) ==
  IF n < 10 THEN <<Digits[n + 1]>>
  ELSE NumberToString(n \div 10) \o <<Digits[(n % 10) + 1]>>

\* --------------------------------------------------- the catalog as served
\* The products the API returns (ApiResponse.data.products): prices are
\* strings, discount_price is string | null, units carry is_active.
ServerProducts == <<
  [id |-> 1, selling_price |-> <<"3">>, discount_price |-> None, stock |-> 2,
   units |-> << [unit_code |-> <<"A", "1">>, is_active |-> 1],
                [unit_code |-> <<"a", "1">>, is_active |-> 1] >>],
  [id |-> 2, selling_price |-> <<"2">>, discount_price |-> Some(<<"1">>), stock |-> 1,
   units |-> << [unit_code |-> <<"B", "2">>, is_active |-> 1],
                [unit_code |-> <<"b", "3">>, is_active |-> 0] >>],
  [id |-> 3, selling_price |-> <<"1">>, discount_price |-> None, stock |-> 0,
   units |-> << [unit_code |-> <<"C", "4">>, is_active |-> 1] >>] >>

\* product.discount_price ? parseFloat(product.discount_price) : null
mapDiscountPrice(p) ==
  IF p.discount_price # None /\ p.discount_price[1] # <<>>
  THEN Some(parseFloat(p.discount_price[1])[1])
  ELSE None

\* unit.unit_code || `UNIT-${product.id}`
unitCodeOr(code, id) ==
  IF code # <<>> THEN code ELSE <<"U", "N", "I", "T", "-">> \o NumberToString(id)

\* part_004: one Unit per sub-unit with is_active === 1
mapUnitsPart004(p) ==
  LET active == SelectSeq(p.units, LAMBDA u : u.is_active = 1)
  IN  [i \in 1..Len(active) |->
        [product_id |-> p.id,
         unit_code |-> unitCodeOr(active[i].unit_code, p.id),
         selling_price |-> OrElse(parseFloat(p.selling_price), 0),
         discount_price |-> mapDiscountPrice(p),
         stock |-> p.stock,
         is_active |-> active[i].is_active]]

\* TransactionCreate.tsx: one Unit per sub-unit, active or not, and one
\* placeholder Unit for a product without sub-units; the Unit has no
\* is_active field (kept here as the server's value, which the screen never
\* reads; the placeholder has none to keep and counts as active)
mapUnitsTxCreate(p) ==
  IF Len(p.units) > 0
  THEN [i \in 1..Len(p.units) |->
         [product_id |-> p.id,
          unit_code |-> unitCodeOr(p.units[i].unit_code, p.id),
          selling_price |-> OrElse(parseFloat(p.selling_price), 0),
          discount_price |-> mapDiscountPrice(p),
          stock |-> p.stock,
          is_active |-> p.units[i].is_active]]
  ELSE << [product_id |-> p.id,
           unit_code |-> unitCodeOr(<<>>, p.id),
           selling_price |-> OrElse(parseFloat(p.selling_price), 0),
           discount_price |-> mapDiscountPrice(p),
           stock |-> p.stock,
           is_active |-> 1] >>

\* validProducts.flatMap(...): the units of the products, in API order
RECURSIVE mappedProducts(_, _)
mappedProducts(i, products) ==
  IF products = <<>> THEN <<>>
  ELSE (IF i = Part004 THEN mapUnitsPart004(Head(products))
        ELSE mapUnitsTxCreate(Head(products)))
       \o mappedProducts(i, Tail(products))

\* the units the screen lists after a successful load (availableUnits)
availableUnits(i) == mappedProducts(i, ServerProducts)

Range(s) == {s[i] : i \in 1..Len(s)}

\* ------------------------------------------------------------- calculator
\* the CartItem addToCart builds from a Unit (a value copy, quantity 1)
newCartItem(u) ==
  [product_id |-> u.product_id,
   unit_code |-> u.unit_code,
   selling_price |-> u.selling_price,
   discount_price |-> u.discount_price,
   quantity |-> 1]

\* price of one cart line
\*   part_004:              item.discount_price ?? item.selling_price
\*   TransactionCreate.tsx: the same, then (price || 0) * (quantity || 1)
linePrice(i, item) ==
  LET price == IF item.discount_price # None THEN item.discount_price[1]
               ELSE item.selling_price
  IN  IF i = Part004 THEN price * item.quantity
      ELSE price * (IF item.quantity = 0 THEN 1 ELSE item.quantity)

RECURSIVE calculateSubtotal(_, _)
calculateSubtotal(i, c) ==
  IF c = <<>> THEN 0
  ELSE calculateSubtotal(i, SubSeq(c, 1, Len(c) - 1)) + linePrice(i, c[Len(c)])

\* Math.max(0, subtotal - (parseFloat(newTotal) || 0)), both screens
calculateDiscount(i, c, nt) ==
  Max(0, calculateSubtotal(i, c) - OrElse(parseFloat(nt), 0))

\*   part_004:              Math.max(0, isNaN(total) ? subtotal : total)
\*   TransactionCreate.tsx: Math.max(0, parseFloat(newTotal) || subtotal)
calculateTotal(i, c, nt) ==
  LET total == parseFloat(nt)
  IN  IF i = Part004
      THEN Max(0, IF isNaN(total) THEN calculateSubtotal(i, c) ELSE total[1])
      ELSE Max(0, OrElse(total, calculateSubtotal(i, c)))

\* ------------------------------------------------------------- popup titles
TitleDuplicate  == "Unit Sudah Ditambahkan"
TitleNoStock    == "Stok Habis"
TitleInactive   == "Unit Tidak Aktif"
TitleAdded      == "Unit Ditambahkan"
TitleEmptyCart  == "Keranjang Kosong"
TitleNoPayment  == "Metode Pembayaran Kosong"
TitleNoCardType == "Tipe Kartu Kosong"
TitleBadTotal   == "Harga Baru Tidak Valid"
TitleSuccess    == "Transaksi Berhasil"
TitleFailed     == "Gagal Membuat Transaksi"
NoPopup         == ""

\* ---------------------------------------------------------------- addToCart
\* body of addToCart in part_004, on the cart of the render that made it
addToCartPart004(c, u) ==
  IF \E k \in 1..Len(c) : toLowerCase(c[k].unit_code) = toLowerCase(u.unit_code)
  THEN TitleDuplicate
  ELSE IF u.stock <= 0 THEN TitleNoStock
  ELSE IF u.is_active # 1 THEN TitleInactive
  ELSE TitleAdded

\* body of addToCart in TransactionCreate.tsx, on the scannedUnitCodes of the
\* render that made it
addToCartTxCreate(codes, u) ==
  IF u.stock <= 0 THEN TitleNoStock
  ELSE IF \E k \in 1..Len(codes) : codes[k] = u.unit_code THEN TitleDuplicate
  ELSE TitleAdded

\* debounce(func, 500, {leading: true, trailing: false}): the call goes
\* through when no timer is pending
callNow(pendingTimer) == ~pendingTimer

\* prev.filter((_, i) => i !== index), index counted from 1 here
filterOut(s, index) ==
  [k \in 1..(Len(s) - (IF index \in 1..Len(s) THEN 1 ELSE 0)) |->
     IF k < index THEN s[k] ELSE s[k + 1]]

\* --------------------------------------------------------------- validation
\* validateForm without its last check (total > calculateSubtotal())
validateFormNoUpperBound(i, c, pm, ct, nt) ==
  LET total == parseFloat(nt)
  IN  IF Len(c) = 0 THEN TitleEmptyCart
      ELSE IF pm = "" THEN TitleNoPayment
      ELSE IF pm = "debit" /\ ct = "" THEN TitleNoCardType
      ELSE IF nt = <<>> \/ isNaN(total) \/ LessThan(total, 0) THEN TitleBadTotal
      ELSE NoPopup

\* validateForm: the title of the popup it raises, NoPopup when it passes
validateForm(i, c, pm, ct, nt) ==
  LET total == parseFloat(nt)
  IN  IF Len(c) = 0 THEN TitleEmptyCart
      ELSE IF pm = "" THEN TitleNoPayment
      ELSE IF pm = "debit" /\ ct = "" THEN TitleNoCardType
      ELSE IF nt = <<>> \/ isNaN(total) \/ LessThan(total, 0) THEN TitleBadTotal
      ELSE IF GreaterThan(total, calculateSubtotal(i, c)) THEN TitleBadTotal
      ELSE NoPopup

\* ------------------------------------------------------------------ payload
orNull(text) == IF text = "" THEN None ELSE Some(text)

\* one entry of payload.products
payloadProduct(i, item) ==
  IF i = Part004
  THEN [unit_code |-> toUpperCase(item.unit_code),
        discount_price |-> item.discount_price,
        quantity |-> item.quantity]
  ELSE [product_id |-> item.product_id,
        unit_code |-> item.unit_code,
        discount_price |-> item.discount_price,
        quantity |-> item.quantity]

\*   part_004:              discount_amount: calculateDiscount()
\*   TransactionCreate.tsx: discount_amount: parseFloat(newTotal) || calculateSubtotal()
payloadDiscountAmount(i, c, nt) ==
  IF i = Part004 THEN calculateDiscount(i, c, nt)
  ELSE OrElse(parseFloat(nt), calculateSubtotal(i, c))

\* the payload submitTransaction builds from the values its closure holds
buildPayload(i, f) ==
  [customer_name |-> orNull(f.customerName),
   customer_phone |-> orNull(f.customerPhone),
   customer_email |-> orNull(f.customerEmail),
   payment_method |-> f.paymentMethod,
   card_type |-> IF f.paymentMethod = "debit" THEN Some(f.cardType) ELSE None,
   notes |-> orNull(f.notes),
   discount_amount |-> payloadDiscountAmount(i, f.cart, f.newTotal),
   products |-> [k \in 1..Len(f.cart) |-> payloadProduct(i, f.cart[k])]]

\* =============================================================== the loaders
\* fetchUnits (part_004, TransactionCreate.tsx) and fetchAllProducts
\* (Inventory.tsx) read the catalog page by page.
Inventory == "Inventory.tsx"
LoaderImpls == {Part004, TxCreate, Inventory}

MaxPages  == 2   \* largest last_page the endpoint reports
MaxFaults == 3   \* page answers other than a list of products explored in one load
MaxClock  == 2   \* the clock is explored up to MaxClock validity windows

\* const maxRetries = 3
maxRetries == 3
\* const CACHE_VALIDITY_DURATION = 5 * 60 * 1000
CACHE_VALIDITY_DURATION == 5 * 60 * 1000

MsgEmptyPart004        == "Tidak ada unit produk aktif tersedia dari API."
MsgEmptyTxCreate       == "Tidak ada produk tersedia dari API."
MsgEmptyInventory      == "Tidak ada produk ditemukan."
MsgLoadFailedPart004   == "Gagal mengambil data produk. Silakan coba lagi."
MsgLoadFailedInventory == "Tidak dapat memuat data inventaris. Silakan coba lagi nanti."
MsgNoTokenInventory    == "Silakan login terlebih dahulu."
MsgNoTokenThrown       == "Token autentikasi tidak ditemukan."
MsgInvalidProducts     == "Data produk dari API tidak valid"
MsgUnauthenticated     == "Unauthenticated."
MsgStatus401           == "Request failed with status code 401"
MsgStatus500           == "Request failed with status code 500"

\* ------------------------------------------------------------ the endpoint
\* A JSON value the code tests with Array.isArray: an array, an object, or
\* no value at all (the field is missing).
JsonArray(s) == [type |-> "array", value |-> s]
JsonObject   == [type |-> "object", value |-> <<>>]
JsonMissing  == [type |-> "undefined", value |-> <<>>]

\* One entry of data.products as the endpoint sends it: any of id, name,
\* stock and units may be missing, stock may be a string.
RawEntry(p, page) ==
  [id |-> Some(p.id + Len(ServerProducts) * (page - 1)),
   name |-> Some("sepatu"),
   stock |-> [type |-> "number", value |-> p.stock],
   units |-> JsonArray(p.units),
   selling_price |-> p.selling_price,
   discount_price |-> p.discount_price]

\* The entries of a page of the stocked endpoint: page 1 holds well-formed
\* entries only, the later pages also entries that miss stock (or carry it
\* as a string), units, id or name.  An endpoint with a field served answers
\* page 1 with those entries.
PageEntries(srv, page) ==
  IF "served" \in DOMAIN srv THEN (IF page = 1 THEN srv.served ELSE <<>>)
  ELSE IF ~srv.stocked THEN <<>>
  ELSE IF page = 1
  THEN [k \in 1..Len(ServerProducts) |-> RawEntry(ServerProducts[k], 1)]
  ELSE << RawEntry(ServerProducts[1], page),
          [RawEntry(ServerProducts[2], page) EXCEPT !.stock = [type |-> "undefined", value |-> 0]],
          [RawEntry(ServerProducts[2], page) EXCEPT !.stock = [type |-> "string", value |-> 1]],
          RawEntry(ServerProducts[2], page),
          [RawEntry(ServerProducts[3], page) EXCEPT !.units = JsonMissing],
          [RawEntry(ServerProducts[3], page) EXCEPT !.id = None],
          [RawEntry(ServerProducts[3], page) EXCEPT !.name = None],
          RawEntry(ServerProducts[3], page) >>

\* What the endpoint answers to the request of a page:
\*   "ok"           200, data.products a list, pagination.last_page
\*   "missing"      200, data without a products field
\*   "notlist"      200, data.products an object
\*   "unauthorized" 401 with a message
\*   "error"        500 without a JSON body (a transport error takes the same
\*                  path through all three loaders)
Failures == {"notlist", "unauthorized", "error"}
ResponseKinds == {"ok", "missing"} \cup Failures

serverResponse(srv, page, kind) ==
  [status    |-> IF kind = "unauthorized" THEN 401 ELSE IF kind = "error" THEN 500 ELSE 200,
   message   |-> IF kind = "unauthorized" THEN Some(MsgUnauthenticated) ELSE None,
   products  |-> IF kind = "ok" THEN JsonArray(PageEntries(srv, page))
                 ELSE IF kind = "notlist" THEN JsonObject
                 ELSE JsonMissing,
   last_page |-> IF kind \in {"ok", "missing", "notlist"} THEN Some(srv.lastPage) ELSE None]

\* ------------------------------------------------------- the page handling
\* response.data.data?.products || []
productData(resp) ==
  IF resp.products.type = "undefined" THEN JsonArray(<<>>) ELSE resp.products

isArray(v) == v.type = "array"

\* a filter that does not look at stock
validProductWhateverStock(e) ==
  /\ e.id # None /\ e.id[1] # 0
  /\ e.name # None /\ e.name[1] # ""
  /\ isArray(e.units)

\* product && product.id && product.name && typeof product.stock === 'number'
\*   && Array.isArray(product.units)
validProduct(e) ==
  /\ e.id # None /\ e.id[1] # 0
  /\ e.name # None /\ e.name[1] # ""
  /\ e.stock.type = "number"
  /\ isArray(e.units)

validProducts(entries) == SelectSeq(entries, validProduct)

\* a valid entry as the Product the mapping reads
asProduct(e) ==
  [id |-> e.id[1], selling_price |-> e.selling_price,
   discount_price |-> e.discount_price, stock |-> e.stock.value,
   units |-> e.units.value]

\* what a page adds to allProducts: Inventory.tsx keeps the valid entries,
\* the transaction screens their mapped units
pageProducts(i, entries) ==
  LET valid == validProducts(entries)
  IN  IF i = Inventory THEN valid
      ELSE mappedProducts(i, [k \in 1..Len(valid) |-> asProduct(valid[k])])

\* response.data.data?.pagination?.last_page || 1
lastPageOf(resp) ==
  IF resp.last_page = None \/ resp.last_page[1] = 0 THEN 1 ELSE resp.last_page[1]

\* the request rejects (axios: non-2xx; fetch: !response.ok) or the page
\* handling throws
pageThrows(resp) == resp.status # 200 \/ ~isArray(productData(resp))

\* the error message the catch block of the load shows
catchMessage(i, resp) ==
  IF i = Inventory THEN MsgLoadFailedInventory
  ELSE IF resp.status # 200 /\ resp.message # None THEN resp.message[1]
  ELSE IF i = Part004 THEN MsgLoadFailedPart004
  ELSE IF resp.status = 401 THEN MsgStatus401
  ELSE IF resp.status = 500 THEN MsgStatus500
  ELSE MsgInvalidProducts

\* the message left when no token is stored: Inventory.tsx returns with its
\* own; the transaction screens set MsgNoToken and throw, and the catch block
\* sets its message over it
noTokenMessage(i) ==
  IF i = Inventory THEN MsgNoTokenInventory
  ELSE IF i = Part004 THEN MsgLoadFailedPart004
  ELSE MsgNoTokenThrown

emptyMessage(i) ==
  IF i = Inventory THEN MsgEmptyInventory
  ELSE IF i = Part004 THEN MsgEmptyPart004
  ELSE MsgEmptyTxCreate

\* retries++ ; if (retries >= maxRetries) throw error   (Inventory.tsx); the
\* transaction screens have no retry loop: the first failure is thrown
retriesLeft(i, retries) == i = Inventory /\ retries + 1 < maxRetries

\* a retry counter declared outside the page loop
retriesCarriedOver(retries) == retries

\* let retries = 0 at the top of the do-body: each page starts a new count
retriesOfNextPage(retries) == 0

\* a loop that stops one page early
morePagesButLast(nextPage, lastPage) == nextPage < lastPage

\* } while (currentPage <= lastPage), currentPage already incremented
morePages(nextPage, lastPage) == nextPage <= lastPage

\* a catch block that shows what was fetched before the failure
productsAfterKeepingPartial(old, allProducts, failed) ==
  IF Len(allProducts) > 0 THEN allProducts ELSE old

\* the catalog a load leaves on the screen: a successful load with entries
\* replaces it, an empty or failed load leaves it
productsAfter(old, allProducts, failed) ==
  IF ~failed /\ Len(allProducts) > 0 THEN allProducts ELSE old

\* the errorMessage a load that ran to its end leaves
errorAfter(i, allProducts) ==
  IF Len(allProducts) = 0 THEN emptyMessage(i) ELSE ""

\* ---------------------------------------------------------------- the cache
\* JSON.stringify(products) / JSON.parse(cachedProducts): the stored text is
\* kept as the JSON value it denotes; "invalid" is a text JSON.parse rejects
stringify(list) == JsonArray(list)
JsonInvalid == [type |-> "invalid", value |-> <<>>]

\* parseInt(timestamp, 10): over the texts of this model (sign, digits,
\* letters) it reads what parseFloat reads
parseInt(s) == parseFloat(s)

\* a validity test with <= in place of <
cacheLoadedUpToDuration(cachedProducts, timestamp, clock) ==
  /\ cachedProducts # None
  /\ timestamp # None /\ timestamp[1] # <<>>
  /\ LessThan(IF isNaN(parseInt(timestamp[1])) THEN NaN
              ELSE Some(clock - parseInt(timestamp[1])[1]),
              CACHE_VALIDITY_DURATION + 1)
  /\ isArray(cachedProducts[1])

\* loadProductsFromStorage: the cached list if the entry can be used
\*   cachedProducts && timestamp, age < CACHE_VALIDITY_DURATION,
\*   JSON.parse does not throw, Array.isArray(products)
cacheLoaded(cachedProducts, timestamp, clock) ==
  /\ cachedProducts # None
  /\ timestamp # None /\ timestamp[1] # <<>>
  /\ LessThan(IF isNaN(parseInt(timestamp[1])) THEN NaN
              ELSE Some(clock - parseInt(timestamp[1])[1]),
              CACHE_VALIDITY_DURATION)
  /\ isArray(cachedProducts[1])

\* a running call of the loader: its position and its locals
IdleLoad ==
  [pc |-> "idle", allProducts |-> <<>>, currentPage |-> 1, lastPage |-> 1,
   retries |-> 0, cachedProducts |-> None, stamp |-> 0]

\* the calls that can run side by side
LoadIds == {"first", "second"}

\* ------------------------------------------------------------------ dates
\* A Date holds a time value, milliseconds since 1970-01-01T00:00Z, kept here
\* as its Day and its TimeWithinDay: [day |-> d, ms |-> m] is d * msPerDay + m.
msPerDay == 86400000
WIB_OFFSET == 7 * 60 * 60 * 1000

\* new Date(date.getTime() + ms)
plusMs(t, ms) ==
  [day |-> t.day + ((t.ms + ms) \div msPerDay), ms |-> (t.ms + ms) % msPerDay]

\* ECMAScript DayFromYear, InLeapYear, and the days before a month (1..12)
DayFromYear(y) ==
  365 * (y - 1970) + ((y - 1969) \div 4) - ((y - 1901) \div 100) + ((y - 1601) \div 400)

InLeapYear(y) == DayFromYear(y + 1) - DayFromYear(y) = 366

DaysBeforeMonth(y, m) ==
  LET common == <<0, 31, 59, 90, 120, 151, 181, 212, 243, 273, 304, 334, 365>>
  IN  common[m] + (IF m > 2 /\ InLeapYear(y) THEN 1 ELSE 0)

\* the transaction list screens: the two components of TransactionIndex.tsx
\* (the one with the client-side date filter, lines 64-600, and the one that
\* queries by date, lines 620-1340) and part_001
TxIndexFiltering == "TransactionIndex.tsx:64"
TxIndex == "TransactionIndex.tsx:620"
Part001 == "part_001"
ListImpls == {TxIndexFiltering, TxIndex, Part001}

\* n.toString().padStart(2, '0')
padStart2(n) ==
  IF Len(NumberToString(n)) < 2 THEN <<"0">> \o NumberToString(n) ELSE NumberToString(n)

\* getUTCFullYear, getUTCMonth (0..11), getUTCDate, getUTCHours, getUTCMinutes
getUTCFullYear(t) ==
  CHOOSE y \in (1970 + (t.day \div 366))..(1970 + (t.day \div 365)) :
    DayFromYear(y) <= t.day /\ t.day < DayFromYear(y + 1)

getUTCMonth(t) ==
  LET y == getUTCFullYear(t)
      dayInYear == t.day - DayFromYear(y)
  IN  (CHOOSE m \in 1..12 :
         DaysBeforeMonth(y, m) <= dayInYear /\ dayInYear < DaysBeforeMonth(y, m + 1)) - 1

getUTCDate(t) ==
  LET y == getUTCFullYear(t)
  IN  t.day - DayFromYear(y) - DaysBeforeMonth(y, getUTCMonth(t) + 1) + 1

getUTCHours(t) == t.ms \div 3600000
getUTCMinutes(t) == (t.ms \div 60000) % 60

\* new Date(text) for an ISO text with the zone designator Z, the text given
\* by its fields: [year, month, day, hour, minute]
parseDate(text) ==
  [day |-> DayFromYear(text.year) + DaysBeforeMonth(text.year, text.month)
             + text.day - 1,
   ms |-> (text.hour * 60 + text.minute) * 60000]

\* toISOString().split('T')[0], and the same text put together from
\* getUTCFullYear, getUTCMonth + 1 and getUTCDate: YYYY-MM-DD
isoDate(t) ==
  NumberToString(getUTCFullYear(t)) \o <<"-">> \o padStart2(getUTCMonth(t) + 1)
    \o <<"-">> \o padStart2(getUTCDate(t))

\* formatDateWIB(date)
formatDateWIB(date) == isoDate(plusMs(date, WIB_OFFSET))

\* the Date whose UTC fields are the local fields of t on a device whose
\* local time is UTC + zone: getHours, toLocaleString and the like read them
localTime(t, zone) == plusMs(t, zone)

\* setUTCHours(0, 0, 0, 0), and setHours(0, 0, 0, 0): local midnight
setUTCHours0(t) == [day |-> t.day, ms |-> 0]
setHours0(t, zone) == plusMs(setUTCHours0(localTime(t, zone)), 0 - zone)

\* toLocaleDateString('en-CA'): the local calendar day as YYYY-MM-DD
toLocaleDateString(t, zone) == isoDate(localTime(t, zone))

\* formatDisplayDate(date):
\*   TransactionIndex.tsx: dd/MM/yyyy HH:mm from the getUTC fields of wibDate
\*   part_001: wibDate.toLocaleString('id-ID', {day, month, year, hour, minute}),
\*             kept as the fields the locale text is written from
formatDisplayDate(i, date, zone) ==
  LET wibDate == plusMs(date, WIB_OFFSET)
      shown == localTime(wibDate, zone)
  IN  IF i = Part001
      THEN [day |-> getUTCDate(shown), month |-> getUTCMonth(shown),
            year |-> getUTCFullYear(shown), hour |-> getUTCHours(shown),
            minute |-> getUTCMinutes(shown)]
      ELSE padStart2(getUTCDate(wibDate)) \o <<"/">>
             \o padStart2(getUTCMonth(wibDate) + 1) \o <<"/">>
             \o NumberToString(getUTCFullYear(wibDate)) \o <<" ">>
             \o padStart2(getUTCHours(wibDate)) \o <<":">>
             \o padStart2(getUTCMinutes(wibDate))

\* an invoice number whose month is getUTCMonth() without the + 1
formatInvoiceNumberMonthFromZero(date) ==
  LET wibDate == plusMs(parseDate(date), WIB_OFFSET)
  IN  <<"I", "N", "V", "-">> \o padStart2(getUTCDate(wibDate))
        \o padStart2(getUTCMonth(wibDate)) \o NumberToString(getUTCFullYear(wibDate))

\* formatInvoiceNumber(date): INV-DDMMYYYY of the instant shifted by WIB_OFFSET
formatInvoiceNumber(date) ==
  LET wibDate == plusMs(parseDate(date), WIB_OFFSET)
      day == padStart2(getUTCDate(wibDate))
      month == padStart2(getUTCMonth(wibDate) + 1)
      year == NumberToString(getUTCFullYear(wibDate))
  IN  <<"I", "N", "V", "-">> \o day \o month \o year

\* TransactionIndex.tsx 123-136: the client-side filter keeps the transaction
filteredByDate(created, filter, zone) ==
  LET wibOffset == 7 * 60
      localFilterDate == setHours0(filter, zone)
      transactionDateWIB ==
        setHours0(plusMs(parseDate(created), wibOffset * 60 * 1000), zone)
  IN  toLocaleDateString(transactionDateWIB, zone) = toLocaleDateString(localFilterDate, zone)

\* the transactions a screen lists when the API answers with one transaction:
\* the client-side filter and the local date of the first component, the
\* formatted invoice number and display date of the others
listed(i, created, filter, zone) ==
  IF i = TxIndexFiltering
  THEN (IF filteredByDate(created, filter, zone)
        THEN <<[created_at |-> created, invoice_number |-> None,
                display |-> toLocaleDateString(parseDate(created), zone)]>>
        ELSE <<>>)
  ELSE <<[created_at |-> created, invoice_number |-> formatInvoiceNumber(created),
          display |-> formatDisplayDate(i, parseDate(created), zone)]>>

\* the date parameter of the query: the first component sends none when the
\* WIB day of filterDate is today's UTC day
queryDate(i, filter, current) ==
  IF i = TxIndexFiltering
  THEN (IF isoDate(plusMs(filter, 7 * 60 * 60 * 1000)) # isoDate(current)
        THEN Some(isoDate(plusMs(filter, 7 * 60 * 60 * 1000))) ELSE None)
  ELSE Some(formatDateWIB(filter))

\* onDateChange: the filterDate set for a picked Date
pickedDate(i, selectedDate) ==
  IF i = TxIndexFiltering THEN selectedDate
  ELSE plusMs(setUTCHours0(plusMs(selectedDate, WIB_OFFSET)), 0 - WIB_OFFSET)

\* ------------------------------------------------------------ the scanner
\* A scanned text is a sequence of characters in which the two URL bases are
\* single symbols; both end in a slash.
InventoryUrl == "https://testingaplikasi.tokosepatusovan.com/inventory/"
OtherUrl == "https://toko.example/"

TitleNotFound == "Unit Tidak Ditemukan"
TitleNotLoaded == "Data Produk Belum Dimuat"

\* the symbol is or ends in "/"
endsInSlash(c) == c \in {"/", InventoryUrl, OtherUrl}

RECURSIVE TrimEnd(_)
TrimEnd(s) ==
  IF s # <<>> /\ s[Len(s)] = " " THEN TrimEnd(SubSeq(s, 1, Len(s) - 1)) ELSE s

\* String.prototype.trim
trim(s) == TrimEnd(TrimStart(s))

\* scannedCode.match(/\/unit\/([^/]+)$/): the text after a final "/unit/"
\* that holds no further slash, None when the text does not end that way
matchUnit(scannedCode) ==
  LET slashes == {k \in 1..Len(scannedCode) : endsInSlash(scannedCode[k])}
      last == CHOOSE k \in slashes : \A j \in slashes : j <= k
  IN  IF /\ slashes # {}
         /\ scannedCode[last] = "/"
         /\ last < Len(scannedCode)
         /\ last >= 3
         /\ scannedCode[last - 1] = "unit"
         /\ endsInSlash(scannedCode[last - 2])
      THEN Some(SubSeq(scannedCode, last + 1, Len(scannedCode)))
      ELSE None

\* part_004: the unitCode handleBarcodeScanned reads from the scanned text
scannedUnitCode(scannedCode) ==
  IF scannedCode # <<>> /\ Head(scannedCode) = InventoryUrl
  THEN matchUnit(scannedCode)
  ELSE Some(scannedCode)

\* part_004 fetchUnits: unit.qr_code || `https://.../inventory/${product.id}/unit/${unit.unit_code}`
\* (the endpoint of this model sends no qr_code)
qrCodeOf(u) ==
  <<InventoryUrl>> \o NumberToString(u.product_id) \o <<"/", "unit", "/">> \o u.unit_code

\* availableUnits.find(...): the positions of the units the predicate accepts
scanMatches(i, units, data) ==
  IF i = Part004
  THEN LET scannedCode == trim(data)
           unitCode == scannedUnitCode(scannedCode)
       IN  {k \in 1..Len(units) :
              \/ /\ unitCode # None /\ unitCode[1] # <<>>
                 /\ toLowerCase(units[k].unit_code) = toLowerCase(unitCode[1])
              \/ toLowerCase(qrCodeOf(units[k])) = toLowerCase(scannedCode)}
  ELSE {k \in 1..Len(units) : units[k].unit_code = data}

\* ... and the first of them, None when there is none
findUnit(i, units, data) ==
  LET found == scanMatches(i, units, data)
  IN  IF found = {} THEN None
      ELSE Some(units[CHOOSE k \in found : \A j \in found : k <= j])

\* ---------------------------------------------------- the inventory list view
\* selectedBrand when no brand is picked, and the brandCounts key of a product
\* without brand
All == <<"a", "l", "l">>
Unknown == <<"U", "n", "k", "n", "o", "w", "n">>

\* sanitizeString: (str || '').replace(/['"]/g, '').replace(/\n/g, '')
\* (a missing attribute is the empty text)
sanitizeString(str) == SelectSeq(str, LAMBDA c : c \notin {"'", "\"", "\n"})

\* String.prototype.includes
includes(s, sub) ==
  \E i \in 0..(Len(s) - Len(sub)) : SubSeq(s, i + 1, i + Len(sub)) = sub

\* the useMemo filteredProducts: three filters one after the other
filteredProducts(list, brand, search, size) ==
  LET searchLower == toLowerCase(sanitizeString(search))
      sizeLower == toLowerCase(sanitizeString(size))
      byBrand ==
        IF brand # All
        THEN SelectSeq(list, LAMBDA product : sanitizeString(product.brand) = brand)
        ELSE list
      bySearch ==
        IF Len(search) >= 2
        THEN SelectSeq(byBrand, LAMBDA product :
               \/ /\ product.brand # <<>>
                  /\ includes(toLowerCase(sanitizeString(product.brand)), searchLower)
               \/ /\ product.model # <<>>
                  /\ includes(toLowerCase(sanitizeString(product.model)), searchLower))
        ELSE byBrand
  IN  IF Len(size) >= 1
      THEN SelectSeq(bySearch, LAMBDA product :
             /\ product.size # <<>>
             /\ includes(toLowerCase(sanitizeString(product.size)), sizeLower))
      ELSE bySearch

\* updateBrandCounts: the keys of brandCounts, which the brand Picker offers
brandKeys(list) ==
  {IF sanitizeString(list[k].brand) = <<>> THEN Unknown
   ELSE sanitizeString(list[k].brand) : k \in 1..Len(list)}

\* -------------------------------------------------------------------- state
VARIABLES
  impl,              \* which implementation of the screen is mounted
  token,             \* AsyncStorage holds a bearer token
  cart,              \* useState<CartItem[]>
  scannedUnitCodes,  \* useState<string[]> (TransactionCreate.tsx only)
  rendered,          \* the cart and scannedUnitCodes the committed render closed over
  pending,           \* cart insertions made since that render
  timeout,           \* debounce: a timer is pending (part_004 only)
  newTotal, paymentMethod, cardType,
  customerName, customerPhone, customerEmail, notes,
  loading, errorMessage,
  popup,             \* title the latest handler passed to showPopupMessage, NoPopup if none
  pc,                \* submitTransaction: "idle", "token" (awaiting getItem), "post" (awaiting axios.post)
  closure,           \* the values the running submitTransaction closed over
  request,           \* the payload of the POST in flight
  edits,             \* user events handled since the running submission started
  products,          \* the catalog the screen lists (availableUnits / state.products)
  load,              \* per running fetchUnits / fetchAllProducts call: its locals and position
  requests,          \* the page requests the endpoint has received, with their outcome
  server,            \* the endpoint: the last_page it reports, whether it has products
  cache,             \* AsyncStorage: inventory_products and inventory_cache_timestamp
  now,               \* Date.now()
  searchTerm, sizeTerm, selectedBrand, currentPage,  \* InventoryState
  savedState,        \* AsyncStorage: inventory_state
  hasScanned,        \* useState hasScanned (part_004) / scanned (TransactionCreate.tsx)
  transactions,      \* the transaction list screen: useState<Transaction[]>
  filterDate,        \* ... its useState<Date> filterDate
  timeZone           \* the device's local time zone: local time minus UTC, in ms

cartVars == <<cart, scannedUnitCodes, rendered, pending, timeout>>
formVars == <<newTotal, paymentMethod, cardType, customerName, customerPhone,
              customerEmail, notes>>
submitVars == <<loading, errorMessage, pc, closure, request>>
loadVars == <<products, load, requests, server, cache, now>>
viewVars == <<searchTerm, sizeTerm, selectedBrand, currentPage, savedState>>
scanVars == <<hasScanned>>
dateVars == <<transactions, filterDate, timeZone>>
vars == <<impl, token, cartVars, formVars, submitVars, popup, edits, loadVars, viewVars,
          scanVars, dateVars>>

\* ------------------------------------------------------------------- inputs
\* Of the Picker items the code tells apart only "" and "debit": "cash" stands
\* for the other payment methods as well, "BCA" for the three card types.
PaymentMethods == {"", "cash", "debit"}
CardTypes == {"", "BCA"}
\* Override texts: empty, zero, inside and above the subtotals of the
\* catalog, negative, unparsable, and a number followed by a letter.
Texts == { <<>>, <<"0">>, <<"1">>, <<"9">>, <<"-", "1">>, <<"-">>, <<"1", "x">> }
FieldTexts == {"", "x"}
Responses == {"success", "rejected", "error", "unauthorized"}

MsgNoToken == "Token tidak ditemukan. Silakan login kembali."

\* the transaction screen as useState constructs it
InitScreen ==
  /\ cart = <<>>
  /\ scannedUnitCodes = <<>>
  /\ rendered = [cart |-> <<>>, scannedUnitCodes |-> <<>>]
  /\ pending = 0
  /\ timeout = FALSE
  /\ newTotal = <<>>
  /\ paymentMethod = ""
  /\ cardType = ""
  /\ customerName = ""
  /\ customerPhone = ""
  /\ customerEmail = ""
  /\ notes = ""
  /\ loading = FALSE
  /\ errorMessage = ""
  /\ popup = NoPopup
  /\ pc = "idle"
  /\ closure = None
  /\ request = None
  /\ edits = 0
  /\ hasScanned = FALSE

\* The inventory screen's list view as useState constructs it; nothing is
\* saved under inventory_state.  No transaction is listed.
InitView ==
  /\ searchTerm = <<>>
  /\ sizeTerm = <<>>
  /\ selectedBrand = All
  /\ currentPage = 1
  /\ savedState = None
  /\ transactions = <<>>
  /\ filterDate = [day |-> 0, ms |-> 0]
  /\ timeZone = 0

\* The transaction screen once the fetchUnits of its mount effect has loaded
\* the catalog.
Init ==
  /\ impl \in Impls
  /\ token \in BOOLEAN
  /\ InitScreen
  /\ InitView
  /\ products = availableUnits(impl)
  /\ load = [l \in LoadIds |-> IdleLoad]
  /\ requests = <<>>
  /\ server = [lastPage |-> 1, stocked |-> TRUE]
  /\ cache = [products |-> None, timestamp |-> None]
  /\ now = 0

\* A user event: while a submission is awaited at most MaxEdits are explored.
UserEvent ==
  /\ pc # "idle" => edits < MaxEdits
  /\ edits' = IF pc = "idle" THEN 0 ELSE edits + 1

\* React has committed every state update: the handlers close over the
\* current cart.  Press, text and picker events are flushed before the next
\* event is dispatched; only the add triggers (tap, scan) are let through on a
\* render that has not yet seen the previous insertion.
Flushed == pending = 0

\* ------------------------------------------------------------ cart handlers
\* addToCart(unit), as the tap and the scanner call it
addToCartCall(u) ==
  LET through == IF impl = Part004 THEN callNow(timeout) ELSE TRUE
      result  == IF impl = Part004 THEN addToCartPart004(rendered.cart, u)
                 ELSE addToCartTxCreate(rendered.scannedUnitCodes, u)
      added   == through /\ result = TitleAdded
  IN  /\ UserEvent
      /\ added => (Len(cart) < MaxCart /\ pending < MaxBurst)
      /\ timeout' = (impl = Part004)
      /\ popup' = IF through THEN result ELSE NoPopup
      /\ cart' = IF added THEN Append(cart, newCartItem(u)) ELSE cart
      /\ scannedUnitCodes' = IF added /\ impl = TxCreate
                             THEN Append(scannedUnitCodes, u.unit_code)
                             ELSE scannedUnitCodes
      /\ pending' = IF added THEN pending + 1 ELSE pending
      /\ UNCHANGED <<impl, token, rendered, formVars, submitVars>>
      /\ UNCHANGED <<loadVars, viewVars, dateVars>>

\* a tap on a listed unit
addToCart(u) == addToCartCall(u) /\ UNCHANGED scanVars

\* React commits the insertions: the handlers are rebuilt over the new cart,
\* and with them (useCallback deps [cart, ...]) a fresh debounce
Render ==
  /\ pending > 0
  /\ rendered' = [cart |-> cart, scannedUnitCodes |-> scannedUnitCodes]
  /\ pending' = 0
  /\ timeout' = FALSE
  /\ UNCHANGED <<impl, token, cart, scannedUnitCodes, formVars, submitVars,
                 popup, edits>>
  /\ UNCHANGED <<loadVars, viewVars, dateVars, scanVars>>

\* debounce's later(): the 500 ms timer runs out.  A commit that is due has
\* been scheduled before the timer and runs first.
later ==
  /\ impl = Part004
  /\ timeout
  /\ Flushed
  /\ timeout' = FALSE
  /\ UNCHANGED <<impl, token, cart, scannedUnitCodes, rendered, pending,
                 formVars, submitVars, popup, edits>>
  /\ UNCHANGED <<loadVars, viewVars, dateVars, scanVars>>

\* removeItem(index): the X button of a rendered cart line
removeItem(index) ==
  /\ UserEvent
  /\ Flushed
  /\ index \in 1..Len(rendered.cart)
  /\ cart' = filterOut(cart, index)
  /\ scannedUnitCodes' = IF impl = TxCreate THEN filterOut(scannedUnitCodes, index)
                         ELSE scannedUnitCodes
  /\ rendered' = [cart |-> cart', scannedUnitCodes |-> scannedUnitCodes']
  /\ timeout' = FALSE
  /\ popup' = NoPopup
  /\ UNCHANGED <<impl, token, pending, formVars, submitVars>>
  /\ UNCHANGED <<loadVars, viewVars, dateVars, scanVars>>

\* ------------------------------------------------------------ form handlers
\* handleNewTotalChange(text) / the onChangeText of the "Harga Baru" input
handleNewTotalChange(text) ==
  LET total    == parseFloat(text)
      subtotal == calculateSubtotal(impl, rendered.cart)
  IN  /\ UserEvent
      /\ Flushed
      /\ IF GreaterThan(total, subtotal)
         THEN newTotal' = NumberToString(subtotal) /\ popup' = TitleBadTotal
         ELSE IF LessThan(total, 0)
         THEN newTotal' = <<>> /\ popup' = TitleBadTotal
         ELSE newTotal' = text /\ popup' = NoPopup
      /\ UNCHANGED <<impl, token, cartVars, paymentMethod, cardType, customerName,
                     customerPhone, customerEmail, notes, submitVars>>
      /\ UNCHANGED <<loadVars, viewVars, dateVars, scanVars>>

\* the payment-method Picker: setPaymentMethod(value); if (value !== 'debit') setCardType('')
selectPaymentMethod(value) ==
  /\ UserEvent
  /\ Flushed
  /\ paymentMethod' = value
  /\ cardType' = IF value # "debit" THEN "" ELSE cardType
  /\ popup' = NoPopup
  /\ UNCHANGED <<impl, token, cartVars, newTotal, customerName, customerPhone,
                 customerEmail, notes, submitVars>>
  /\ UNCHANGED <<loadVars, viewVars, dateVars, scanVars>>

\* the card-type Picker, rendered only while paymentMethod === 'debit'
selectCardType(value) ==
  /\ UserEvent
  /\ Flushed
  /\ paymentMethod = "debit"
  /\ cardType' = value
  /\ popup' = NoPopup
  /\ UNCHANGED <<impl, token, cartVars, newTotal, paymentMethod, customerName,
                 customerPhone, customerEmail, notes, submitVars>>
  /\ UNCHANGED <<loadVars, viewVars, dateVars, scanVars>>

handleCustomerNameChange(text) ==
  /\ UserEvent
  /\ Flushed
  /\ customerName' = text
  /\ popup' = NoPopup
  /\ UNCHANGED <<impl, token, cartVars, newTotal, paymentMethod, cardType,
                 customerPhone, customerEmail, notes, submitVars>>
  /\ UNCHANGED <<loadVars, viewVars, dateVars, scanVars>>

handleCustomerPhoneChange(text) ==
  /\ UserEvent
  /\ Flushed
  /\ customerPhone' = text
  /\ popup' = NoPopup
  /\ UNCHANGED <<impl, token, cartVars, newTotal, paymentMethod, cardType,
                 customerName, customerEmail, notes, submitVars>>
  /\ UNCHANGED <<loadVars, viewVars, dateVars, scanVars>>

handleCustomerEmailChange(text) ==
  /\ UserEvent
  /\ Flushed
  /\ customerEmail' = text
  /\ popup' = NoPopup
  /\ UNCHANGED <<impl, token, cartVars, newTotal, paymentMethod, cardType,
                 customerName, customerPhone, notes, submitVars>>
  /\ UNCHANGED <<loadVars, viewVars, dateVars, scanVars>>

handleNotesChange(text) ==
  /\ UserEvent
  /\ Flushed
  /\ notes' = text
  /\ popup' = NoPopup
  /\ UNCHANGED <<impl, token, cartVars, newTotal, paymentMethod, cardType,
                 customerName, customerPhone, customerEmail, submitVars>>
  /\ UNCHANGED <<loadVars, viewVars, dateVars, scanVars>>

\* --------------------------------------------------------------- submission
\* the values the handlers of the committed render close over
formNow ==
  [cart |-> rendered.cart, customerName |-> customerName,
   customerPhone |-> customerPhone, customerEmail |-> customerEmail,
   paymentMethod |-> paymentMethod, cardType |-> cardType, notes |-> notes,
   newTotal |-> newTotal]

\* disabled={cart.length === 0 || loading} on the "Proses Transaksi" button
submitDisabled == Len(rendered.cart) = 0 \/ loading

\* submitTransaction up to its first await: validateForm, then setLoading(true)
submitTransaction ==
  LET verdict == validateForm(impl, rendered.cart, paymentMethod, cardType, newTotal)
  IN  /\ Flushed
      /\ ~submitDisabled
      /\ pc = "idle"
      /\ popup' = verdict
      /\ IF verdict # NoPopup
         THEN UNCHANGED <<submitVars, edits>>
         ELSE /\ loading' = TRUE
              /\ errorMessage' = ""
              /\ pc' = "token"
              /\ closure' = Some(formNow)
              /\ edits' = 0
              /\ UNCHANGED request
      /\ UNCHANGED <<impl, token, cartVars, formVars>>
      /\ UNCHANGED <<loadVars, viewVars, dateVars, scanVars>>

\* AsyncStorage.getItem('token') resolves: without a token the catch block
\* reports the failure, with one the payload is built and posted
submitToken ==
  /\ pc = "token"
  /\ IF token
     THEN /\ request' = Some(buildPayload(impl, closure[1]))
          /\ pc' = "post"
          /\ UNCHANGED <<loading, errorMessage, closure, popup, edits>>
     ELSE /\ errorMessage' = MsgNoToken
          /\ popup' = TitleFailed
          /\ loading' = FALSE
          /\ pc' = "idle"
          /\ closure' = None
          /\ edits' = 0
          /\ UNCHANGED request
  /\ UNCHANGED <<impl, token, cartVars, formVars>>
  /\ UNCHANGED <<loadVars, viewVars, dateVars, scanVars>>

\* a handler without the `if (!response.data.success) throw`
responseSucceededUnlessError(r) == r \in {"success", "rejected"}

\* the request resolved with a 2xx status and response.data.success is set
responseSucceeded(r) == r = "success"

\* axios.post settles: success clears the cart and the form; success: false,
\* a transport error or a non-2xx status end in the catch block; a 401 also
\* removes the token
submitResponse(r) ==
  /\ pc = "post"
  /\ Flushed
  /\ IF responseSucceeded(r)
     THEN /\ cart' = <<>>
          /\ scannedUnitCodes' = <<>>
          /\ rendered' = [cart |-> <<>>, scannedUnitCodes |-> <<>>]
          /\ timeout' = FALSE
          /\ newTotal' = <<>>
          /\ paymentMethod' = ""
          /\ cardType' = ""
          /\ customerName' = ""
          /\ customerPhone' = ""
          /\ customerEmail' = ""
          /\ notes' = ""
          /\ popup' = TitleSuccess
          /\ UNCHANGED <<token, pending>>
     ELSE /\ popup' = TitleFailed
          /\ token' = IF r = "unauthorized" THEN FALSE ELSE token
          /\ UNCHANGED <<cartVars, formVars>>
  /\ loading' = FALSE
  /\ pc' = "idle"
  /\ closure' = None
  /\ request' = None
  /\ edits' = 0
  /\ UNCHANGED <<impl, errorMessage>>
  /\ UNCHANGED <<loadVars, viewVars, dateVars, scanVars>>

\* ------------------------------------------------------------ specification
Next ==
  \/ \E u \in Range(availableUnits(impl)) : addToCart(u)
  \/ Render
  \/ later
  \/ \E index \in 1..MaxCart + 1 : removeItem(index)
  \/ \E text \in Texts : handleNewTotalChange(text)
  \/ \E value \in PaymentMethods : selectPaymentMethod(value)
  \/ \E value \in CardTypes : selectCardType(value)
  \/ submitTransaction
  \/ submitToken
  \/ \E r \in Responses : submitResponse(r)

Spec == Init /\ [][Next]_vars

\* The same screen with the customer and notes inputs in use, over fewer
\* units (those of the second product), override texts and payment methods.
FormUnits == {u \in Range(availableUnits(impl)) : u.product_id = ServerProducts[2].id}
FormTexts == { <<>>, <<"1">> }
FormPaymentMethods == {"cash", "debit"}

NextForm ==
  \/ \E u \in FormUnits : addToCart(u)
  \/ Render
  \/ later
  \/ \E text \in FormTexts : handleNewTotalChange(text)
  \/ \E value \in FormPaymentMethods : selectPaymentMethod(value)
  \/ \E value \in CardTypes : selectCardType(value)
  \/ \E text \in FieldTexts : handleCustomerNameChange(text)
  \/ \E text \in FieldTexts : handleCustomerPhoneChange(text)
  \/ \E text \in FieldTexts : handleCustomerEmailChange(text)
  \/ \E text \in FieldTexts : handleNotesChange(text)
  \/ submitTransaction
  \/ submitToken
  \/ \E r \in Responses : submitResponse(r)

SpecForm == Init /\ [][NextForm]_vars

\* ================================================================ the loaders
InFlight == ""

Servers == [lastPage : 1..MaxPages, stocked : BOOLEAN]

NoCache == [products |-> None, timestamp |-> None]

\* Every other variable is as the mounted screen leaves it.
screenVars == <<cartVars, formVars, pc, closure, request, popup, edits, viewVars, dateVars,
                scanVars>>

\* the requests of call l, oldest first
requestsOf(l) == SelectSeq(requests, LAMBDA q : q.load = l)

\* answers other than a list of products call l has received
faults(l) ==
  Len(SelectSeq(requests, LAMBDA q : q.load = l /\ q.result \notin {"ok", InFlight}))

\* the request of a page leaves for the endpoint
issued(log, l, page) == Append(log, [load |-> l, page |-> page, result |-> InFlight])

\* the endpoint's answer to the request in flight arrives
settled(l, kind) ==
  [k \in 1..Len(requests) |->
     IF requests[k].load = l /\ requests[k].result = InFlight
     THEN [requests[k] EXCEPT !.result = kind] ELSE requests[k]]

\* the body of fetchUnits / fetchAllProducts up to its first await:
\* setLoading(true); setErrorMessage(''); await AsyncStorage.getItem('token')
enterFetch(l) ==
  /\ loading' = TRUE
  /\ errorMessage' = ""
  /\ load' = [load EXCEPT ![l] = [IdleLoad EXCEPT !.pc = "token"]]

\* fetchAllProducts() / fetchUnits() is called: the mount effect, the
\* "Refresh Data" button, the refresh button of the inventory header
fetchAllProducts(l) ==
  /\ load[l].pc = "idle"
  /\ enterFetch(l)
  /\ requests' = SelectSeq(requests, LAMBDA q : q.load # l)
  /\ UNCHANGED <<impl, token, screenVars, products, server, cache, now>>

\* getItem('token') resolves: without a token the call ends, with one it
\* requests page 1
fetchToken(l) ==
  /\ load[l].pc = "token"
  /\ IF token
     THEN /\ load' = [load EXCEPT ![l].pc = "page"]
          /\ requests' = issued(requests, l, 1)
          /\ UNCHANGED <<loading, errorMessage>>
     ELSE /\ errorMessage' = noTokenMessage(impl)
          /\ loading' = FALSE
          /\ load' = [load EXCEPT ![l] = IdleLoad]
          /\ UNCHANGED requests
  /\ UNCHANGED <<impl, token, screenVars, products, server, cache, now>>

\* the request of the current page settles with an answer of the given kind
fetchPage(l, kind) ==
  LET me       == load[l]
      resp     == serverResponse(server, me.currentPage, kind)
      all      == me.allProducts \o pageProducts(impl, productData(resp).value)
      nextPage == me.currentPage + 1
  IN
  /\ me.pc = "page"
  /\ kind # "ok" => faults(l) < MaxFaults
  /\ IF pageThrows(resp)
     THEN IF retriesLeft(impl, me.retries)
          THEN \* the retry loop catches it and pauses for a second
               /\ load' = [load EXCEPT ![l].retries = me.retries + 1, ![l].pc = "pause"]
               /\ requests' = settled(l, kind)
               /\ UNCHANGED <<token, loading, errorMessage, products>>
          ELSE \* the catch block of the load
               /\ errorMessage' = catchMessage(impl, resp)
               /\ loading' = FALSE
               /\ token' = IF impl # Inventory /\ resp.status = 401 THEN FALSE ELSE token
               /\ products' = productsAfter(products, me.allProducts, TRUE)
               /\ load' = [load EXCEPT ![l] = IdleLoad]
               /\ requests' = settled(l, kind)
     ELSE IF morePages(nextPage, lastPageOf(resp))
          THEN \* while (currentPage <= lastPage): the next page is requested
               /\ load' = [load EXCEPT ![l].allProducts = all,
                                       ![l].lastPage = lastPageOf(resp),
                                       ![l].currentPage = nextPage,
                                       ![l].retries = retriesOfNextPage(me.retries)]
               /\ requests' = issued(settled(l, kind), l, nextPage)
               /\ UNCHANGED <<token, loading, errorMessage, products>>
          ELSE \* the loop is left: the catalog is set, or the empty message
               /\ products' = productsAfter(products, all, FALSE)
               /\ errorMessage' = IF errorAfter(impl, all) # "" THEN errorAfter(impl, all)
                                  ELSE errorMessage
               /\ loading' = FALSE
               /\ load' = [load EXCEPT ![l] =
                             IF impl = Inventory /\ Len(all) > 0
                             THEN [IdleLoad EXCEPT !.pc = "saveProducts", !.allProducts = all]
                             ELSE IdleLoad]
               /\ requests' = settled(l, kind)
               /\ UNCHANGED token
  /\ UNCHANGED <<impl, screenVars, server, cache, now>>

\* Inventory.tsx: the second of the retry pause is over, the page is
\* requested again
retryPause(l) ==
  /\ load[l].pc = "pause"
  /\ load' = [load EXCEPT ![l].pc = "page"]
  /\ requests' = issued(requests, l, load[l].currentPage)
  /\ UNCHANGED <<impl, token, screenVars, loading, errorMessage, products, server,
                 cache, now>>

\* saveProductsToStorage: setItem(CACHE_KEY, JSON.stringify(products)) is done,
\* setItem(CACHE_TIMESTAMP_KEY, Date.now().toString()) is called
saveProductsToStorage(l) ==
  /\ load[l].pc = "saveProducts"
  /\ cache' = [cache EXCEPT !.products = Some(stringify(load[l].allProducts))]
  /\ load' = [load EXCEPT ![l].pc = "saveTimestamp", ![l].stamp = now]
  /\ UNCHANGED <<impl, token, screenVars, loading, errorMessage, products, requests,
                 server, now>>

\* ... and the timestamp is stored
saveTimestamp(l) ==
  /\ load[l].pc = "saveTimestamp"
  /\ cache' = [cache EXCEPT !.timestamp = Some(NumberToString(load[l].stamp))]
  /\ load' = [load EXCEPT ![l] = IdleLoad]
  /\ UNCHANGED <<impl, token, screenVars, loading, errorMessage, products, requests,
                 server, now>>

\* the catalog of the endpoint changes between two loads; requests lists
\* what the endpoint has been asked since
catalogChanges(srv) ==
  /\ \A l \in LoadIds : load[l].pc = "idle"
  /\ srv # server
  /\ server' = srv
  /\ requests' = <<>>
  /\ UNCHANGED <<impl, token, screenVars, loading, errorMessage, products, load,
                 cache, now>>

FirstLoad == {"first"}

InitLoad ==
  /\ impl \in LoaderImpls
  /\ token \in BOOLEAN
  /\ InitScreen
  /\ InitView
  /\ products = <<>>
  /\ load = [l \in LoadIds |-> IdleLoad]
  /\ requests = <<>>
  /\ server \in Servers
  /\ cache = NoCache
  /\ now = 0

NextLoad ==
  \/ \E l \in FirstLoad : fetchAllProducts(l)
  \/ \E l \in FirstLoad : fetchToken(l)
  \/ \E l \in FirstLoad, kind \in ResponseKinds : fetchPage(l, kind)
  \/ \E l \in FirstLoad : retryPause(l)
  \/ \E l \in FirstLoad : saveProductsToStorage(l)
  \/ \E l \in FirstLoad : saveTimestamp(l)
  \/ \E srv \in Servers : catalogChanges(srv)

SpecLoad == InitLoad /\ [][NextLoad]_vars

\* ------------------------------------------------- the inventory screen focus
\* useFocusEffect: checkAndSync() is called, up to the getItem('inventory_state')
\* of loadStateFromStorage
checkAndSync(l) ==
  /\ impl = Inventory
  /\ load[l].pc = "idle"
  /\ load' = [load EXCEPT ![l] = [IdleLoad EXCEPT !.pc = "state"]]
  /\ requests' = SelectSeq(requests, LAMBDA q : q.load # l)
  /\ UNCHANGED <<impl, token, screenVars, loading, errorMessage, products, server,
                 cache, now>>

\* loadStateFromStorage restores the saved filters and page of the list view;
\* loadProductsFromStorage calls getItem(CACHE_KEY)
loadStateFromStorage(l) ==
  /\ load[l].pc = "state"
  /\ load' = [load EXCEPT ![l].pc = "cachedProducts"]
  /\ IF savedState # None
     THEN LET parsedState == savedState[1]
          IN  /\ searchTerm' = parsedState.searchTerm
              /\ sizeTerm' = parsedState.sizeTerm
              /\ selectedBrand' = IF parsedState.selectedBrand = <<>> THEN All
                                  ELSE parsedState.selectedBrand
              /\ currentPage' = IF parsedState.currentPage = 0 THEN 1
                                ELSE parsedState.currentPage
     ELSE UNCHANGED <<searchTerm, sizeTerm, selectedBrand, currentPage>>
  /\ UNCHANGED <<impl, token, cartVars, formVars, pc, closure, request, popup, edits,
                 savedState, dateVars, scanVars>>
  /\ UNCHANGED <<loading, errorMessage, products, requests, server, cache, now>>

\* getItem(CACHE_KEY) resolves, getItem(CACHE_TIMESTAMP_KEY) is called
readCachedProducts(l) ==
  /\ load[l].pc = "cachedProducts"
  /\ load' = [load EXCEPT ![l].pc = "timestamp", ![l].cachedProducts = cache.products]
  /\ UNCHANGED <<impl, token, screenVars, loading, errorMessage, products, requests,
                 server, cache, now>>

\* getItem(CACHE_TIMESTAMP_KEY) resolves: loadProductsFromStorage takes the
\* catalog from the cache and returns true, or returns false and checkAndSync
\* calls clearCache
loadProductsFromStorage(l) ==
  /\ load[l].pc = "timestamp"
  /\ IF cacheLoaded(load[l].cachedProducts, cache.timestamp, now)
     THEN /\ products' = load[l].cachedProducts[1].value
          /\ loading' = FALSE
          /\ load' = [load EXCEPT ![l] = IdleLoad]
     ELSE /\ load' = [load EXCEPT ![l].pc = "removeProducts", ![l].cachedProducts = None]
          /\ UNCHANGED <<products, loading>>
  /\ UNCHANGED <<impl, token, screenVars, errorMessage, requests, server, cache, now>>

\* clearCache: removeItem(CACHE_KEY) is done, removeItem(CACHE_TIMESTAMP_KEY)
\* is called
removeCachedProducts(l) ==
  /\ load[l].pc = "removeProducts"
  /\ cache' = [cache EXCEPT !.products = None]
  /\ load' = [load EXCEPT ![l].pc = "removeTimestamp"]
  /\ UNCHANGED <<impl, token, screenVars, loading, errorMessage, products, requests,
                 server, now>>

\* ... the timestamp is removed, and checkAndSync calls fetchAllProducts()
clearCache(l) ==
  /\ load[l].pc = "removeTimestamp"
  /\ cache' = [cache EXCEPT !.timestamp = None]
  /\ enterFetch(l)
  /\ UNCHANGED <<impl, token, screenVars, products, requests, server, now>>

\* the instants the clock is looked at: around the multiples of the validity
\* window
Instants ==
  {t \in {k * CACHE_VALIDITY_DURATION + e : k \in 0..MaxClock, e \in {0 - 1, 0, 1}} :
     t >= 0}

\* time passes
Tick(t) ==
  /\ t > now
  /\ now' = t
  /\ UNCHANGED <<impl, token, screenVars, loading, errorMessage, products, load,
                 requests, server, cache>>

\* a product as an earlier session cached it
CachedEntry == RawEntry(ServerProducts[3], 1)

\* what AsyncStorage holds when the screen is constructed: nothing, or what an
\* earlier session stored at time 0, or texts that are no list or no number
InitialCaches ==
  { NoCache,
    [products |-> Some(stringify(<<CachedEntry>>)), timestamp |-> Some(NumberToString(0))],
    [products |-> Some(JsonObject), timestamp |-> Some(NumberToString(0))],
    [products |-> Some(JsonInvalid), timestamp |-> Some(NumberToString(0))],
    [products |-> Some(stringify(<<CachedEntry>>)), timestamp |-> Some(<<"x">>)],
    [products |-> Some(stringify(<<CachedEntry>>)), timestamp |-> None] }

\* the answers explored on the inventory screen
FocusResponseKinds == {"ok", "error"}

InitFocus ==
  /\ impl = Inventory
  /\ token \in BOOLEAN
  /\ InitScreen
  /\ InitView
  /\ products = <<>>
  /\ load = [l \in LoadIds |-> IdleLoad]
  /\ requests = <<>>
  /\ server \in Servers
  /\ cache \in InitialCaches
  /\ now = 0

NextFocus ==
  \/ \E l \in FirstLoad : checkAndSync(l)
  \/ \E l \in FirstLoad : loadStateFromStorage(l)
  \/ \E l \in FirstLoad : readCachedProducts(l)
  \/ \E l \in FirstLoad : loadProductsFromStorage(l)
  \/ \E l \in FirstLoad : removeCachedProducts(l)
  \/ \E l \in FirstLoad : clearCache(l)
  \/ \E l \in FirstLoad : fetchAllProducts(l)
  \/ \E l \in FirstLoad : fetchToken(l)
  \/ \E l \in FirstLoad, kind \in FocusResponseKinds : fetchPage(l, kind)
  \/ \E l \in FirstLoad : retryPause(l)
  \/ \E l \in FirstLoad : saveProductsToStorage(l)
  \/ \E l \in FirstLoad : saveTimestamp(l)
  \/ \E t \in Instants : Tick(t)

SpecFocus == InitFocus /\ [][NextFocus]_vars

\* ------------------------------------------------- the inventory list view
\* everything but the list view and its catalog
outsideView ==
  <<impl, token, cartVars, formVars, submitVars, popup, edits, load, requests,
    server, cache, now, savedState, scanVars, dateVars>>

\* the TextInput "Cari brand/model": onChangeText
onChangeSearchTerm(text) ==
  /\ impl = Inventory
  /\ searchTerm' = text
  /\ currentPage' = 1
  /\ UNCHANGED <<outsideView, products, sizeTerm, selectedBrand>>

\* the TextInput "Ukuran": onChangeText
onChangeSizeTerm(text) ==
  /\ impl = Inventory
  /\ sizeTerm' = text
  /\ currentPage' = 1
  /\ UNCHANGED <<outsideView, products, searchTerm, selectedBrand>>

\* the brand Picker: onValueChange with "all" or a key of brandCounts, which
\* updateBrandCounts derived from the filtered list
onBrandValueChange(value) ==
  /\ impl = Inventory
  /\ value \in {All} \cup
               brandKeys(filteredProducts(products, selectedBrand, searchTerm, sizeTerm))
  /\ selectedBrand' = value
  /\ currentPage' = 1
  /\ UNCHANGED <<outsideView, products, searchTerm, sizeTerm>>

\* InventoryItems as a load lists them: attributes with and without quotes,
\* in either case, and an item without attributes
InventoryItems ==
  { [id |-> 1, brand |-> <<"N", "i">>, model |-> <<"A", "b">>, size |-> <<"4", "2">>],
    [id |-> 2, brand |-> <<"N", "'", "i">>, model |-> <<"C", "u">>, size |-> <<"4">>],
    [id |-> 3, brand |-> <<"T", "a">>, model |-> <<"n", "i", "c">>, size |-> <<"2", "4">>],
    [id |-> 4, brand |-> <<>>, model |-> <<>>, size |-> <<>>] }

\* the catalogs of up to MaxCatalog different items
Catalogs ==
  {c \in UNION {[1..n -> InventoryItems] : n \in 0..MaxCatalog} :
     \A j, k \in 1..Len(c) : j # k => c[j] # c[k]}

\* the texts typed into the two search fields
SearchTexts == { <<>>, <<"n">>, <<"n", "i">>, <<"N", "I">>, <<"a", "b">>,
                 <<"n", "'">>, <<"'", "'">> }
SizeTexts == { <<>>, <<"4">>, <<"4", "2">>, <<"'">> }

InitFilter ==
  /\ impl = Inventory
  /\ token = TRUE
  /\ InitScreen
  /\ InitView
  /\ products \in Catalogs
  /\ load = [l \in LoadIds |-> IdleLoad]
  /\ requests = <<>>
  /\ server = [lastPage |-> 1, stocked |-> TRUE]
  /\ cache = NoCache
  /\ now = 0

NextFilter ==
  \/ \E text \in SearchTexts : onChangeSearchTerm(text)
  \/ \E text \in SizeTexts : onChangeSizeTerm(text)
  \/ \E value \in {All, Unknown} \cup {sanitizeString(i.brand) : i \in InventoryItems} :
       onBrandValueChange(value)

SpecFilter == InitFilter /\ [][NextFilter]_vars

\* ------------------------------------------------------------ the scanner
\* handleBarcodeScanned({type, data}): the camera has decoded a code.  With an
\* empty catalog part_004 reloads it and goes on when fetchUnits has returned.
handleBarcodeScanned(data) ==
  LET unit == findUnit(impl, products, data)
  IN  /\ impl \in Impls
      /\ ~hasScanned
      /\ IF impl = Part004 /\ Len(products) = 0
         THEN /\ load["first"].pc = "idle"
              /\ UserEvent
              /\ popup' = TitleNotLoaded
              /\ enterFetch("first")
              /\ requests' = SelectSeq(requests, LAMBDA q : q.load # "first")
              /\ hasScanned' = TRUE
              /\ UNCHANGED <<impl, token, cartVars, formVars, pc, closure, request,
                             viewVars, dateVars, products, server, cache, now>>
         ELSE IF unit # None /\ impl = Part004 /\ unit[1].is_active # 1
         THEN /\ UserEvent
              /\ popup' = TitleInactive
              /\ UNCHANGED <<impl, token, cartVars, formVars, submitVars, loadVars,
                             viewVars, dateVars, scanVars>>
         ELSE IF unit # None
         THEN /\ addToCartCall(unit[1])
              /\ hasScanned' = (impl = TxCreate)
         ELSE /\ UserEvent
              /\ popup' = TitleNotFound
              /\ hasScanned' = (impl = TxCreate)
              /\ UNCHANGED <<impl, token, cartVars, formVars, submitVars, loadVars,
                             viewVars, dateVars>>

\* TransactionCreate.tsx: the setTimeout of handleBarcodeScanned runs out
scanTimeout ==
  /\ impl = TxCreate
  /\ hasScanned
  /\ hasScanned' = FALSE
  /\ UNCHANGED <<impl, token, cartVars, formVars, submitVars, popup, edits, loadVars,
                 viewVars, dateVars>>

\* part_004: the fetchUnits awaited by handleBarcodeScanned has returned
scanReloaded ==
  /\ impl = Part004
  /\ hasScanned
  /\ load["first"].pc = "idle"
  /\ hasScanned' = FALSE
  /\ UNCHANGED <<impl, token, cartVars, formVars, submitVars, popup, edits, loadVars,
                 viewVars, dateVars>>

\* the texts the camera delivers: unit codes in either case, an unknown
\* code, a code followed by a blank, and URLs that end in a unit code
ScanTexts ==
  { <<"B", "2">>, <<"b", "2">>, <<"a", "1">>, <<"T", "9">>, <<"B", "2", " ">>,
    <<InventoryUrl, "2", "/", "unit", "/", "B", "2">>,
    <<InventoryUrl, "9", "/", "unit", "/", "C", "4">>,
    <<InventoryUrl, "2", "/", "B", "2">>,
    <<OtherUrl, "unit", "/", "B", "2">>,
    <<OtherUrl, "unit", "/", "T", "9">> }

InitScan ==
  /\ impl \in Impls
  /\ token \in BOOLEAN
  /\ InitScreen
  /\ InitView
  /\ products \in {availableUnits(impl), <<>>}
  /\ load = [l \in LoadIds |-> IdleLoad]
  /\ requests = <<>>
  /\ server = [lastPage |-> 1, stocked |-> TRUE]
  /\ cache = NoCache
  /\ now = 0

NextScan ==
  \/ \E data \in ScanTexts : handleBarcodeScanned(data)
  \/ scanTimeout
  \/ scanReloaded
  \/ Render
  \/ later
  \/ \E index \in 1..MaxCart + 1 : removeItem(index)
  \/ \E l \in FirstLoad : fetchToken(l)
  \/ \E l \in FirstLoad, kind \in FocusResponseKinds : fetchPage(l, kind)

SpecScan == InitScan /\ [][NextScan]_vars

\* ------------------------------------------ the unit codes of a loaded catalog
\* Products as the endpoint may hold them: sub-units with and without
\* unit_code, active and not, and a product without sub-units.  The unit
\* codes the endpoint has assigned are all different.
StoredProducts ==
  { [id |-> 1, selling_price |-> <<"3">>, discount_price |-> None, stock |-> 2,
     units |-> << [unit_code |-> <<"A", "1">>, is_active |-> 1],
                  [unit_code |-> <<>>, is_active |-> 1] >>],
    [id |-> 2, selling_price |-> <<"2">>, discount_price |-> None, stock |-> 2,
     units |-> << [unit_code |-> <<>>, is_active |-> 1],
                  [unit_code |-> <<>>, is_active |-> 1] >>],
    [id |-> 3, selling_price |-> <<"1">>, discount_price |-> None, stock |-> 1,
     units |-> <<>>],
    [id |-> 4, selling_price |-> <<"2">>, discount_price |-> None, stock |-> 2,
     units |-> << [unit_code |-> <<>>, is_active |-> 0],
                  [unit_code |-> <<>>, is_active |-> 1] >>],
    [id |-> 5, selling_price |-> <<"2">>, discount_price |-> None, stock |-> 1,
     units |-> << [unit_code |-> <<"B", "2">>, is_active |-> 1],
                  [unit_code |-> <<"C", "4">>, is_active |-> 0] >>] }

\* the one-page catalogs of up to MaxCatalog different products
ServedCatalogs ==
  {c \in UNION {[1..n -> StoredProducts] : n \in 0..MaxCatalog} :
     \A j, k \in 1..Len(c) : j # k => c[j] # c[k]}

InitUnits ==
  /\ impl \in Impls
  /\ token = TRUE
  /\ InitScreen
  /\ InitView
  /\ products = <<>>
  /\ load = [l \in LoadIds |-> IdleLoad]
  /\ requests = <<>>
  /\ \E c \in ServedCatalogs :
       server = [lastPage |-> 1, stocked |-> TRUE,
                 served |-> [k \in 1..Len(c) |-> RawEntry(c[k], 1)]]
  /\ cache = NoCache
  /\ now = 0

NextUnits ==
  \/ \E l \in FirstLoad : fetchAllProducts(l)
  \/ \E l \in FirstLoad : fetchToken(l)
  \/ \E l \in FirstLoad, kind \in FocusResponseKinds : fetchPage(l, kind)

SpecUnits == InitUnits /\ [][NextUnits]_vars

\* ------------------------------------------------ the transaction list screen
\* everything but the transaction list screen
outsideList ==
  <<token, cartVars, formVars, submitVars, popup, edits, products, load, server,
    cache, now, viewVars, scanVars>>

\* the calendar days and the times of day of the transactions of this model:
\* ends of months and years, leap days, and times around 17:00
Days ==
  { <<2025, 1, 5>>, <<2025, 1, 31>>, <<2025, 2, 28>>, <<2025, 4, 30>>,
    <<2024, 2, 29>>, <<2024, 12, 31>>, <<2000, 2, 29>>, <<2100, 2, 28>> }
Times == { <<0, 0>>, <<16, 59>>, <<17, 0>>, <<20, 30>>, <<23, 59>> }

\* created_at as the API sends it: an ISO text in UTC
Timestamps ==
  {[year |-> d[1], month |-> d[2], day |-> d[3], hour |-> t[1], minute |-> t[2]] :
     d \in Days, t \in Times}

\* the instants at which the screen is used and the Dates its picker returns:
\* on the two sides of the UTC midnight and of the WIB midnight of 2025-01-06
Instances ==
  {parseDate([year |-> 2025, month |-> 1, day |-> 5, hour |-> t[1], minute |-> t[2]]) :
     t \in {<<16, 59>>, <<17, 0>>, <<23, 59>>}}

\* fetchTransactions, run by the effect on filterDate: the query is sent at
\* the instant current and the API answers with a transaction created at the
\* given instant
fetchTransactions(created, current) ==
  /\ impl \in ListImpls
  /\ token
  /\ requests' = <<[load |-> "transactions", page |-> 1, result |-> created,
                    date |-> queryDate(impl, filterDate, current)]>>
  /\ transactions' = listed(impl, created, filterDate, timeZone)
  /\ UNCHANGED <<impl, outsideList, filterDate, timeZone>>

\* onDateChange(event, selectedDate) with a Date picked
onDateChange(selectedDate) ==
  /\ impl \in ListImpls
  /\ filterDate' = pickedDate(impl, selectedDate)
  /\ UNCHANGED <<impl, outsideList, requests, transactions, timeZone>>

\* the time zones of the devices: UTC, WIB, and one west of Greenwich
Zones == {0, WIB_OFFSET, 0 - 8 * 60 * 60 * 1000}

InitDate ==
  /\ impl \in ListImpls
  /\ token = TRUE
  /\ InitScreen
  /\ searchTerm = <<>> /\ sizeTerm = <<>> /\ selectedBrand = All
  /\ currentPage = 1 /\ savedState = None
  /\ transactions = <<>>
  /\ filterDate \in Instances
  /\ timeZone \in Zones
  /\ products = <<>>
  /\ load = [l \in LoadIds |-> IdleLoad]
  /\ requests = <<>>
  /\ server = [lastPage |-> 1, stocked |-> TRUE]
  /\ cache = NoCache
  /\ now = 0

NextDate ==
  \/ \E created \in Timestamps, current \in Instances : fetchTransactions(created, current)
  \/ \E selectedDate \in Instances : onDateChange(selectedDate)

SpecDate == InitDate /\ [][NextDate]_vars


\* ------------------------------------- submissions and loads on one screen
\* part_004 with its catalog loaded: the cashier fills the cart, submits and
\* presses "Refresh Data".  submitTransaction and fetchUnits set and clear the
\* same useState loading.  Of two submissions that overlap the model follows
\* the first.
SubmitUnits == {u \in Range(availableUnits(impl)) : u.product_id = ServerProducts[2].id}
SubmitTexts == { <<"1">> }
SubmitPaymentMethods == {"cash"}

InitSubmit ==
  /\ impl = Part004
  /\ token \in BOOLEAN
  /\ InitScreen
  /\ InitView
  /\ products = availableUnits(impl)
  /\ load = [l \in LoadIds |-> IdleLoad]
  /\ requests = <<>>
  /\ server = [lastPage |-> 1, stocked |-> TRUE]
  /\ cache = NoCache
  /\ now = 0

NextSubmit ==
  \/ \E u \in SubmitUnits : addToCart(u)
  \/ Render
  \/ later
  \/ \E text \in SubmitTexts : handleNewTotalChange(text)
  \/ \E value \in SubmitPaymentMethods : selectPaymentMethod(value)
  \/ submitTransaction
  \/ submitToken
  \/ \E r \in Responses : submitResponse(r)
  \/ \E l \in FirstLoad : fetchAllProducts(l)
  \/ \E l \in FirstLoad : fetchToken(l)
  \/ \E l \in FirstLoad, kind \in FocusResponseKinds : fetchPage(l, kind)

SpecSubmit == InitSubmit /\ [][NextSubmit]_vars


\* ------------------------------------------------- two loads that overlap
\* Inventory.tsx: fetchAllProducts is called while an earlier call is still
\* awaited (the refresh button, the search button and the focus effect are
\* never disabled).  Each of the two calls is made once, "second" after
\* "first" has been started; the token is present and every page arrives.
started(l) == load[l].pc # "idle" \/ requestsOf(l) # <<>>

\* the first call
fetchFirst ==
  /\ ~started("first")
  /\ ~started("second")
  /\ fetchAllProducts("first")

\* the call made while the first one is awaited
fetchSecond ==
  /\ load["first"].pc # "idle"
  /\ ~started("second")
  /\ fetchAllProducts("second")

\* the catalog of the endpoint changes while calls are awaited: a request
\* that has not settled yet is answered from the new catalog
catalogChangesMeanwhile(srv) ==
  /\ srv # server
  /\ \E l \in LoadIds : load[l].pc # "idle"
  /\ server' = srv
  /\ UNCHANGED <<impl, token, screenVars, loading, errorMessage, products, load,
                 requests, cache, now>>

InitRace ==
  /\ impl = Inventory
  /\ token = TRUE
  /\ InitScreen
  /\ InitView
  /\ products = <<>>
  /\ load = [l \in LoadIds |-> IdleLoad]
  /\ requests = <<>>
  /\ server \in Servers
  /\ cache = NoCache
  /\ now = 0

NextRace ==
  \/ fetchFirst
  \/ fetchSecond
  \/ \E l \in LoadIds : fetchToken(l)
  \/ \E l \in LoadIds : fetchPage(l, "ok")
  \/ \E l \in LoadIds : saveProductsToStorage(l)
  \/ \E l \in LoadIds : saveTimestamp(l)
  \/ \E srv \in Servers : catalogChangesMeanwhile(srv)

SpecRace == InitRace /\ [][NextRace]_vars


\* ------------------------------------------------- the pages of the list
\* const itemsPerPage = 20
itemsPerPage == 20

\* Math.ceil(filteredProducts.length / itemsPerPage)
totalPages(list) == (Len(list) + itemsPerPage - 1) \div itemsPerPage

\* the list the screen pages through
filteredNow == filteredProducts(products, selectedBrand, searchTerm, sizeTerm)

\* "Selanjutnya": shown when totalPages > 1, disabled on the last page
nextPage ==
  /\ impl = Inventory
  /\ totalPages(filteredNow) > 1
  /\ currentPage # totalPages(filteredNow)
  /\ currentPage' = Min(currentPage + 1, totalPages(filteredNow))
  /\ UNCHANGED <<outsideView, products, searchTerm, sizeTerm, selectedBrand>>

\* "Sebelumnya": shown when totalPages > 1, disabled on page 1
previousPage ==
  /\ impl = Inventory
  /\ totalPages(filteredNow) > 1
  /\ currentPage # 1
  /\ currentPage' = Max(currentPage - 1, 1)
  /\ UNCHANGED <<outsideView, products, searchTerm, sizeTerm, selectedBrand>>

\* saveStateToStorage, which the second focus effect runs on focus and when
\* one of the four saved fields has changed
saveStateToStorage ==
  /\ impl = Inventory
  /\ savedState' = Some([searchTerm |-> searchTerm, sizeTerm |-> sizeTerm,
                         selectedBrand |-> selectedBrand, currentPage |-> currentPage])
  /\ UNCHANGED <<impl, token, cartVars, formVars, submitVars, popup, edits, loadVars,
                 searchTerm, sizeTerm, selectedBrand, currentPage, scanVars, dateVars>>

\* handleDeleteItem, "Hapus" confirmed and the DELETE answered ok: the item
\* leaves the endpoint's catalog and the list, the page is reset, the list
\* is saved, and clearCache and fetchAllProducts follow
handleDeleteItem(l, id) ==
  LET kept(list) == SelectSeq(list, LAMBDA p : p.id # Some(id))
      updatedProducts == kept(products)
  IN  /\ impl = Inventory
      /\ token
      /\ load[l].pc = "idle"
      /\ \E k \in 1..Len(products) : products[k].id = Some(id)
      /\ server' = [server EXCEPT !.served = kept(server.served)]
      /\ products' = updatedProducts
      /\ currentPage' = 1
      /\ errorMessage' = ""
      /\ cache' = [products |-> Some(stringify(updatedProducts)),
                   timestamp |-> Some(NumberToString(now))]
      /\ load' = [load EXCEPT ![l] = [IdleLoad EXCEPT !.pc = "removeProducts"]]
      /\ UNCHANGED <<impl, token, cartVars, formVars, loading, pc, closure, request,
                     popup, edits, requests, now, searchTerm, sizeTerm, selectedBrand,
                     savedState, scanVars, dateVars>>

\* the k-th product of the endpoint as it sends it
ListedEntry(k) ==
  [id |-> Some(k), name |-> Some("sepatu"),
   stock |-> [type |-> "number", value |-> 1], units |-> JsonArray(<<>>),
   selling_price |-> <<"3">>, discount_price |-> None,
   brand |-> IF k = 1 THEN <<"T", "a">> ELSE <<"N", "i">>,
   model |-> <<"A", "b">>, size |-> <<"4", "2">>]

\* endpoints whose catalog fills one page of the list exactly, or one and a bit
PagedServers ==
  {[lastPage |-> 1, stocked |-> TRUE, served |-> [k \in 1..n |-> ListedEntry(k)]] :
     n \in {itemsPerPage, itemsPerPage + 1}}

\* the ids the user deletes
DeletedIds == {1, itemsPerPage + 1}

\* what an earlier session left under 'inventory_state'
SavedStates ==
  {None, Some([searchTerm |-> <<>>, sizeTerm |-> <<>>, selectedBrand |-> All,
               currentPage |-> 2])}

InitPages ==
  /\ impl = Inventory
  /\ token = TRUE
  /\ InitScreen
  /\ searchTerm = <<>>
  /\ sizeTerm = <<>>
  /\ selectedBrand = All
  /\ currentPage = 1
  /\ savedState \in SavedStates
  /\ transactions = <<>>
  /\ filterDate = [day |-> 0, ms |-> 0]
  /\ timeZone = 0
  /\ products = <<>>
  /\ load = [l \in LoadIds |-> IdleLoad]
  /\ requests = <<>>
  /\ server \in PagedServers
  /\ cache = NoCache
  /\ now = 0

NextPages ==
  \/ \E l \in FirstLoad : checkAndSync(l)
  \/ \E l \in FirstLoad : loadStateFromStorage(l)
  \/ \E l \in FirstLoad : readCachedProducts(l)
  \/ \E l \in FirstLoad : loadProductsFromStorage(l)
  \/ \E l \in FirstLoad : removeCachedProducts(l)
  \/ \E l \in FirstLoad : clearCache(l)
  \/ \E l \in FirstLoad : fetchAllProducts(l)
  \/ \E l \in FirstLoad : fetchToken(l)
  \/ \E l \in FirstLoad : fetchPage(l, "ok")
  \/ \E l \in FirstLoad : saveProductsToStorage(l)
  \/ \E l \in FirstLoad : saveTimestamp(l)
  \/ \E srv \in PagedServers : catalogChanges(srv)
  \/ \E l \in FirstLoad, id \in DeletedIds : handleDeleteItem(l, id)
  \/ \E value \in {All, <<"T", "a">>, <<"N", "i">>} : onBrandValueChange(value)
  \/ nextPage
  \/ previousPage
  \/ saveStateToStorage

SpecPages == InitPages /\ [][NextPages]_vars


\* ------------------------------------------------------------------ claims
ListedUnits == Range(availableUnits(impl))

\* number of cart entries whose unit code is code
CountCode(c, code) == Cardinality({k \in 1..Len(c) : c[k].unit_code = code})

\* the subtotal as the data model defines it:
\* sum of (discountPrice if present else sellingPrice) * quantity
RECURSIVE SumOfLines(_)
SumOfLines(c) ==
  IF c = <<>> THEN 0
  ELSE (IF Head(c).discount_price # None THEN Head(c).discount_price[1]
        ELSE Head(c).selling_price) * Head(c).quantity + SumOfLines(Tail(c))

\* the override text is a valid override of the rendered cart:
\* a number n with 0 <= n <= subtotal
ValidOverride(nt, c) ==
  /\ ~isNaN(parseFloat(nt))
  /\ parseFloat(nt)[1] >= 0
  /\ parseFloat(nt)[1] <= SumOfLines(c)

\* C1: in every reachable state the cart holds at most one entry per unit
\* code, codes compared case-insensitively.
C1_OneEntryPerCode ==
  \A j, k \in 1..Len(cart) :
    j # k => toLowerCase(cart[j].unit_code) # toLowerCase(cart[k].unit_code)

\* C2: add triggers that run on the same committed render (the second one
\* before the insertion of the first has been rendered) leave exactly one
\* entry for the unit code they insert.
C2_BurstInsertsOnce ==
  \A k \in (Len(rendered.cart) + 1)..Len(cart) :
    CountCode(cart, cart[k].unit_code) = 1

\* C3: an addToCart call for a unit without stock or for an inactive unit
\* leaves the cart as it was and raises the popup of that cause.
C3_UnaddableRejected ==
  [][\A u \in ListedUnits :
       (addToCart(u) /\ (u.stock <= 0 \/ u.is_active # 1))
         => /\ cart' = cart
            /\ popup' = (IF u.stock <= 0 THEN TitleNoStock ELSE TitleInactive)]_vars

\* C4: an addToCart call for an active unit with stock whose code is not in
\* the cart appends its CartItem (quantity 1) at the end of the cart, whatever
\* preceded it; and every call ends with an append or one of the three named
\* rejections.
C4_AddableAppended ==
  [][\A u \in ListedUnits :
       addToCart(u)
         => /\ ( /\ u.stock > 0
                 /\ u.is_active = 1
                 /\ \A k \in 1..Len(cart) :
                      toLowerCase(cart[k].unit_code) # toLowerCase(u.unit_code) )
               => cart' = Append(cart, newCartItem(u))
            /\ \/ cart' = Append(cart, newCartItem(u))
               \/ popup' \in {TitleDuplicate, TitleNoStock, TitleInactive}]_vars

\* C5: with a valid override (0 <= newTotal <= subtotal, 0 included) the
\* displayed figures satisfy subtotal = sum of the lines,
\* discount = max(0, subtotal - total) and total <= subtotal.
C5_TotalsOfValidOverride ==
  LET c        == rendered.cart
      subtotal == calculateSubtotal(impl, c)
      discount == calculateDiscount(impl, c, newTotal)
      total    == calculateTotal(impl, c, newTotal)
  IN  ValidOverride(newTotal, c)
        => /\ subtotal = SumOfLines(c)
           /\ discount = Max(0, subtotal - total)
           /\ total <= subtotal

\* C6: entering an override above the subtotal stores the subtotal and raises
\* a rejection; entering a negative or an unparsable one stores the empty
\* override and raises a rejection.
C6_OverrideEntryRejected ==
  [][\A text \in Texts :
       handleNewTotalChange(text)
         => LET total    == parseFloat(text)
                subtotal == SumOfLines(rendered.cart)
            IN  /\ GreaterThan(total, subtotal)
                     => /\ parseFloat(newTotal') = Some(subtotal)
                        /\ popup' = TitleBadTotal
                /\ (LessThan(total, 0) \/ (text # <<>> /\ isNaN(total)))
                     => /\ newTotal' = <<>>
                        /\ popup' = TitleBadTotal]_vars

\* C7: the displayed total is the override when the override is valid
\* (0 included) and the subtotal when the override is empty or not a number.
C7_TotalIsOverrideOrSubtotal ==
  LET c     == rendered.cart
      total == calculateTotal(impl, c, newTotal)
  IN  /\ ValidOverride(newTotal, c) => total = parseFloat(newTotal)[1]
      /\ isNaN(parseFloat(newTotal)) => total = SumOfLines(c)

\* the validation cascade as stated: EmptyCart, else MissingPaymentMethod,
\* else MissingCardType (debit without card type), else InvalidOverrideTotal
\* (override empty, not a number, negative or above the subtotal), else pass
ClaimedVerdict(f) ==
  IF Len(f.cart) = 0 THEN TitleEmptyCart
  ELSE IF f.paymentMethod = "" THEN TitleNoPayment
  ELSE IF f.paymentMethod = "debit" /\ f.cardType = "" THEN TitleNoCardType
  ELSE IF ~ValidOverride(f.newTotal, f.cart) THEN TitleBadTotal
  ELSE NoPopup

\* C8: validateForm gives the verdict of the stated cascade on every form the
\* screen can hold; a POST is in flight only for a form that passed it; and a
\* submission that fails it raises that rejection and changes neither the
\* cart nor the form nor starts a request.
C8_ValidationGuardsPost ==
  /\ [](validateForm(impl, formNow.cart, paymentMethod, cardType, newTotal)
          = ClaimedVerdict(formNow))
  /\ [](request # None => /\ pc = "post"
                          /\ ClaimedVerdict(closure[1]) = NoPopup)
  /\ [][(submitTransaction /\ ClaimedVerdict(formNow) # NoPopup)
          => /\ popup' = ClaimedVerdict(formNow)
             /\ UNCHANGED <<cartVars, formVars>>
             /\ pc' = "idle"
             /\ request' = None
             /\ loading' = FALSE]_vars

\* C8 witness: a submission was rejected because the stored override exceeds
\* the subtotal of the cart (an item was removed after the override was typed)
C8_Witness ==
  /\ popup = TitleBadTotal
  /\ Len(cart) > 0
  /\ paymentMethod # ""
  /\ GreaterThan(parseFloat(newTotal), SumOfLines(cart))
  /\ pc = "idle"
  /\ request = None

\* C9: the discount_amount of the posted payload is the discount
\* max(0, subtotal - newTotal) of the submitted cart.
C9_PayloadDiscountAmount ==
  request # None
    => request[1].discount_amount
         = Max(0, SumOfLines(closure[1].cart) - parseFloat(closure[1].newTotal)[1])

\* C10: the posted products list has one entry per cart item, in cart order,
\* with the unit code in upper case, the discount price and the quantity; the
\* posted card type is the chosen one for debit and null otherwise.
C10_PayloadProducts ==
  request # None
    => LET f == closure[1]
           p == request[1]
       IN  /\ Len(p.products) = Len(f.cart)
           /\ \A k \in 1..Len(f.cart) :
                /\ p.products[k].unit_code = toUpperCase(f.cart[k].unit_code)
                /\ p.products[k].discount_price = f.cart[k].discount_price
                /\ p.products[k].quantity = f.cart[k].quantity
           /\ p.card_type = (IF f.paymentMethod = "debit" THEN Some(f.cardType)
                             ELSE None)

\* the cart and all form fields are empty
FormEmpty ==
  /\ cart = <<>>
  /\ customerName = "" /\ customerPhone = "" /\ customerEmail = ""
  /\ paymentMethod = "" /\ cardType = "" /\ notes = "" /\ newTotal = <<>>

\* a submission attempt completes with a failure: the POST ends with a
\* transport error, a non-2xx status or success = false, or no token is stored
SubmissionFails ==
  \/ \E r \in Responses \ {"success"} : submitResponse(r)
  \/ submitToken /\ ~token

\* C11: when a submission attempt completes with the endpoint reporting
\* success, the cart and all form fields (customer name, phone, email,
\* payment method, card type, notes, newTotal) are empty after that step; when
\* it completes with a failure, that step leaves the cart and every form
\* field as they are, and as long as no user event has been handled since
\* the submission started they are the values the submission started with.
C11_SubmissionFrame ==
  /\ [](pc # "idle" /\ edits = 0 =>
          /\ cart = closure[1].cart
          /\ formNow = closure[1])
  /\ [][/\ submitResponse("success") => FormEmpty'
        /\ SubmissionFails => UNCHANGED <<cart, scannedUnitCodes, formVars>>]_vars

\* a submission of a filled form has just failed, and the form is still filled
C11_Witness ==
  /\ pc = "idle" /\ popup = TitleFailed
  /\ Len(cart) > 0
  /\ customerName # "" /\ customerPhone # "" /\ customerEmail # ""
  /\ paymentMethod = "debit" /\ cardType # "" /\ notes # "" /\ newTotal # <<>>

\* ------------------------------------------------------- claims: the loaders
\* the requests of call l for one page, and those among them that failed
AttemptsAt(log, l, page) ==
  Len(SelectSeq(log, LAMBDA q : q.load = l /\ q.page = page))
FailedAttemptsAt(log, l, page) ==
  Len(SelectSeq(log, LAMBDA q : q.load = l /\ q.page = page /\ q.result \in Failures))

\* the well-formed entries of a page: id, name, a numeric stock and a units
\* array are there
WellFormed(e) ==
  /\ e.id # None
  /\ e.name # None
  /\ e.stock.type = "number"
  /\ e.units.type = "array"

\* what the screen lists for the well-formed entries of a page: the entries
\* (Inventory.tsx) or their units (transaction screens)
Listed(i, entries) ==
  LET wf == SelectSeq(entries, WellFormed)
  IN  IF i = Inventory THEN wf
      ELSE mappedProducts(i, [k \in 1..Len(wf) |-> asProduct(wf[k])])

\* the concatenation, in request order, of what the pages answered with a
\* list contribute
RECURSIVE Concatenated(_, _, _)
Concatenated(i, srv, log) ==
  IF log = <<>> THEN <<>>
  ELSE Concatenated(i, srv, SubSeq(log, 1, Len(log) - 1))
       \o (IF log[Len(log)].result = "ok"
           THEN Listed(i, PageEntries(srv, log[Len(log)].page)) ELSE <<>>)

\* call l is past its page loop
LoopLeft(l) == load[l].pc \in {"idle", "saveProducts", "saveTimestamp"}

\* C12 (Inventory.tsx): a page is requested at most 3 times and never again
\* after an answer that did not fail; a failing answer ends the load as failed
\* exactly when it is the 3rd failure of its page, and otherwise the same page
\* is requested again after the pause; an answer with a list extends the
\* result with the entries of its page.  The count is the page's own:
\* failures of earlier pages do not enter it.
C12_ThreeAttemptsPerPage ==
  /\ [](impl = Inventory =>
          \A l \in LoadIds :
            /\ \A page \in 1..MaxPages : AttemptsAt(requests, l, page) <= 3
            /\ \A j, k \in 1..Len(requestsOf(l)) :
                 (j < k /\ requestsOf(l)[j].page = requestsOf(l)[k].page)
                   => requestsOf(l)[j].result \in Failures)
  /\ [][impl = Inventory =>
          \A l \in LoadIds :
            /\ \A kind \in Failures :
                 fetchPage(l, kind) =>
                   IF FailedAttemptsAt(requests', l, load[l].currentPage) = 3
                   THEN /\ load'[l].pc = "idle"
                        /\ ~loading'
                        /\ errorMessage' = MsgLoadFailedInventory
                   ELSE /\ load'[l].pc = "pause"
                        /\ load'[l].currentPage = load[l].currentPage
                        /\ load'[l].allProducts = load[l].allProducts
                        /\ UNCHANGED <<loading, errorMessage>>
            /\ retryPause(l) =>
                 requests' = issued(requests, l, load[l].currentPage)
            /\ fetchPage(l, "ok") =>
                 /\ load'[l].pc # "pause"
                 /\ \/ load'[l].allProducts = load[l].allProducts
                          \o Listed(impl, PageEntries(server, load[l].currentPage))
                    \/ products' = load[l].allProducts
                          \o Listed(impl, PageEntries(server, load[l].currentPage))]_vars

\* page 1 was answered on its 2nd attempt and page 2, after two failures, on
\* its 3rd: the load has seen 3 failures and has completed
C12_Witness ==
  /\ impl = Inventory
  /\ load["first"].pc = "idle"
  /\ errorMessage = ""
  /\ Len(products) > 0
  /\ Len(requestsOf("first")) = 5
  /\ requestsOf("first")[1].page = 1 /\ requestsOf("first")[1].result \in Failures
  /\ requestsOf("first")[2].page = 1 /\ requestsOf("first")[2].result = "ok"
  /\ \A k \in 3..4 : /\ requestsOf("first")[k].page = 2
                      /\ requestsOf("first")[k].result \in Failures
  /\ requestsOf("first")[5].page = 2 /\ requestsOf("first")[5].result = "ok"

\* every answer call l has received so far is a list
NeverFailed(l) ==
  \A k \in 1..Len(requestsOf(l)) : requestsOf(l)[k].result \in {"ok", InFlight}

\* C13: while the endpoint, which reports last_page = N, answers every
\* request of a load with a list, the load requests the pages 1, 2, ... in
\* ascending order, at most N of them, page k + 1 only when the answer to
\* page k has arrived and its entries have been appended; with the answer to
\* the last request in, exactly N requests have been made and the page loop
\* is left.
C13_PagesInAscendingOrder ==
  \A l \in LoadIds :
    LET log == requestsOf(l)
    IN  (NeverFailed(l) /\ Len(log) > 0) =>
          /\ \A k \in 1..Len(log) : log[k].page = k
          /\ Len(log) <= server.lastPage
          /\ \A k \in 1..(Len(log) - 1) : log[k].result = "ok"
          /\ log[Len(log)].result = InFlight =>
                /\ load[l].pc = "page"
                /\ load[l].currentPage = Len(log)
                /\ load[l].allProducts
                     = Concatenated(impl, server, SubSeq(log, 1, Len(log) - 1))
          /\ log[Len(log)].result = "ok" =>
                /\ Len(log) = server.lastPage
                /\ LoopLeft(l)

\* a load of MaxPages pages has been answered without a failure
C13_Witness ==
  /\ server.lastPage = MaxPages
  /\ NeverFailed("first")
  /\ Len(requestsOf("first")) = MaxPages
  /\ requestsOf("first")[MaxPages].result = "ok"
  /\ load["first"].pc = "idle"

\* the requests of call l in a log
CallLog(log, l) == SelectSeq(log, LAMBDA q : q.load = l)

\* C14: a page answer whose products field is missing or is not a list ends
\* the load at once as a failed one: no page is requested after it, the
\* screen shows an error that is not the message of an empty catalog, and the
\* catalog is left alone.
C14_InvalidShapeFailsAtOnce ==
  [][\A l \in LoadIds : \A kind \in {"missing", "notlist"} :
       fetchPage(l, kind) =>
         /\ load'[l].pc = "idle"
         /\ requests' = settled(l, kind)
         /\ ~loading'
         /\ errorMessage' \notin {"", emptyMessage(impl)}
         /\ products' = products]_vars

\* C15 (catalog page fetch): no call issues a request after one of its
\* requests has been answered with 401.
C15_NoRequestAfter401 ==
  \A j, k \in 1..Len(requests) :
    (j < k /\ requests[j].load = requests[k].load)
      => requests[j].result # "unauthorized"

\* the messages that tell the operator that no token is stored
UnauthenticatedMessages == {MsgNoToken, MsgNoTokenInventory, MsgNoTokenThrown}

\* C16 (catalog load): a load started with no token stored ends without a
\* request and leaves the message of the missing token on the screen.
C16_NoTokenNoRequest ==
  [][\A l \in LoadIds :
       (fetchToken(l) /\ ~token) =>
         /\ requests' = requests
         /\ load'[l].pc = "idle"
         /\ ~loading'
         /\ errorMessage' \in UnauthenticatedMessages]_vars

C18_FailedLoadKeepsCatalog ==
  [][/\ \A l \in LoadIds :
          /\ \A kind \in Failures : fetchPage(l, kind) => products' = products
          /\ fetchToken(l) => products' = products
     /\ products' # products =>
          \E l \in LoadIds :
            /\ load[l].pc = "page" /\ LoopLeft(l)'
            /\ CallLog(requests', l)[Len(CallLog(requests', l))].result \notin Failures
            /\ products' = Concatenated(impl, server, CallLog(requests', l))]_vars

\* a reload has failed on page 2 after page 1 was fetched; the screen still
\* lists the catalog of the load before, not the entries of page 1
C18_Witness ==
  /\ load["first"].pc = "idle"
  /\ Len(requestsOf("first")) >= 2
  /\ requestsOf("first")[1].result = "ok"
  /\ requestsOf("first")[Len(requestsOf("first"))].page = 2
  /\ requestsOf("first")[Len(requestsOf("first"))].result \in Failures
  /\ errorMessage # ""
  /\ products # <<>>
  /\ products # Concatenated(impl, server, requestsOf("first"))

\* C19: a load that runs through all its pages without a failure and ends
\* with zero units leaves no error message on the screen, and the catalog
\* listed afterwards is the empty one.
C19_EmptyResultIsNoError ==
  [][\A l \in LoadIds :
       (/\ fetchPage(l, "ok")
        /\ LoopLeft(l)'
        /\ \A k \in 1..Len(CallLog(requests', l)) : CallLog(requests', l)[k].result = "ok"
        /\ Concatenated(impl, server, CallLog(requests', l)) = <<>>)
         => /\ errorMessage' = ""
            /\ products' = <<>>]_vars

\* the cache entry read by a focus is a list stored less than 5 minutes before
\* the instant t
UsableEntry(cachedProducts, timestamp, t) ==
  /\ cachedProducts # None
  /\ cachedProducts[1].type = "array"
  /\ \E w \in Instants :
       /\ timestamp = Some(NumberToString(w))
       /\ t - w < 5 * 60 * 1000

\* the step of a load that ends it with a non-empty result and no error
LoadSucceeds(l) ==
  /\ \E kind \in FocusResponseKinds : fetchPage(l, kind)
  /\ LoopLeft(l)'
  /\ errorMessage' = ""

\* C20 (Inventory.tsx): when a focus of the inventory screen has read the
\* cache entry, then if the entry holds a list and a timestamp less than 5
\* minutes old the catalog becomes that list and the focus ends without a
\* request and without a load; if the entry is missing, 5 minutes old or
\* older, or is no list or has no numeric timestamp, the catalog is left alone
\* and the focus goes on, through clearing the entry, to start a network load.
\* A load that succeeds with a non-empty result goes on to write the cache:
\* the stored list is the catalog and the stored timestamp is the text of the
\* clock at the time of writing, so a focus less than 5 minutes later uses it.
C20_CacheWithinValidityWindow ==
  [][\A l \in FirstLoad :
       /\ loadProductsFromStorage(l) =>
            IF UsableEntry(load[l].cachedProducts, cache.timestamp, now)
            THEN /\ products' = load[l].cachedProducts[1].value
                 /\ load'[l].pc = "idle"
                 /\ requests' = requests
                 /\ cache' = cache
            ELSE /\ load'[l].pc = "removeProducts"
                 /\ products' = products
       /\ removeCachedProducts(l) => load'[l].pc = "removeTimestamp"
       /\ clearCache(l) => load'[l].pc = "token" /\ loading' /\ cache' = NoCache
       /\ LoadSucceeds(l) => load'[l].pc = "saveProducts" /\ products' # <<>>
       /\ saveProductsToStorage(l) =>
            /\ cache'.products = Some(JsonArray(products))
            /\ load'[l].pc = "saveTimestamp" /\ load'[l].stamp = now
       /\ saveTimestamp(l) =>
            /\ cache' = [products |-> Some(JsonArray(products)),
                         timestamp |-> Some(NumberToString(load[l].stamp))]
            /\ UsableEntry(cache'.products, cache'.timestamp, now)
                 <=> now - load[l].stamp < 5 * 60 * 1000
     ]_vars

\* a load wrote the cache at time 1, and a focus 1 ms short of 5 minutes later
\* took the catalog from it: no request is on record for it
C20_Witness ==
  /\ impl = Inventory /\ token
  /\ load["first"].pc = "idle"
  /\ requestsOf("first") = <<>>
  /\ now = 5 * 60 * 1000
  /\ cache.timestamp = Some(NumberToString(1))
  /\ products # <<>>
  /\ cache.products = Some(JsonArray(products))
  /\ ~loading


\* the attribute as the specification's Unit carries it: quotes and newlines
\* stripped
Attribute(text) == SelectSeq(text, LAMBDA c : c # "'" /\ c # "\"" /\ c # "\n")

\* text contains term, letter case aside
ContainsIgnoringCase(text, term) ==
  \E i \in 0..(Len(text) - Len(term)) :
    toLowerCase(SubSeq(text, i + 1, i + Len(term))) = toLowerCase(term)

\* the condition of C21 on one unit
Satisfies(u, brand, search, size) ==
  /\ brand # All => Attribute(u.brand) = brand
  /\ Len(search) >= 2 =>
       \/ ContainsIgnoringCase(Attribute(u.brand), search)
       \/ ContainsIgnoringCase(Attribute(u.model), search)
  /\ Len(size) >= 1 => ContainsIgnoringCase(Attribute(u.size), size)

\* C21 (Inventory.tsx): the filtered list is exactly the units of the catalog,
\* in catalog order, whose brand equals selectedBrand unless that is "all",
\* whose brand or model contains searchTerm (letter case aside) when
\* searchTerm has 2 characters or more, and whose size contains sizeTerm
\* (letter case aside) when sizeTerm has 1 character or more.
C21_FilterIsConjunction ==
  filteredProducts(products, selectedBrand, searchTerm, sizeTerm)
    = SelectSeq(products, LAMBDA u : Satisfies(u, selectedBrand, searchTerm, sizeTerm))


\* the scanned text is a URL: it holds a slash
IsUrl(text) == \E k \in 1..Len(text) : endsInSlash(text[k])

\* the trailing path segment of a URL: what follows its last slash
TrailingSegment(text) ==
  LET slashes == {k \in 1..Len(text) : endsInSlash(text[k])}
  IN  SubSeq(text, (CHOOSE k \in slashes : \A j \in slashes : j <= k) + 1, Len(text))

\* the catalog units C22 lets a scanned text resolve to
Resolvable(units, text) ==
  {u \in Range(units) :
     \/ toLowerCase(u.unit_code) = toLowerCase(text)
     \/ IsUrl(text) /\ toLowerCase(u.unit_code) = toLowerCase(TrailingSegment(text))}

\* C22 (part_004, TransactionCreate.tsx): with a catalog loaded, a scan
\* resolves to a catalog unit whose unitCode equals the scanned text, letter
\* case aside, or equals the trailing path segment of the scanned URL; when
\* no unit of the catalog is such a unit the scan is answered with 'Unit
\* Tidak Ditemukan' and the cart stays as it is.
C22_ScanResolvesToUnit ==
  [][\A data \in ScanTexts :
       handleBarcodeScanned(data) /\ Len(products) > 0 =>
         IF Resolvable(products, data) = {}
         THEN popup' = TitleNotFound /\ cart' = cart
         ELSE /\ findUnit(impl, products, data) # None
              /\ findUnit(impl, products, data)[1] \in Resolvable(products, data)
    ]_vars


\* the number of days of a month of the calendar
DaysInMonth(y, m) ==
  IF m = 2
  THEN (IF y % 4 = 0 /\ (y % 100 # 0 \/ y % 400 = 0) THEN 29 ELSE 28)
  ELSE IF m \in {4, 6, 9, 11} THEN 30 ELSE 31

\* the calendar day after <<y, m, d>>
NextDay(date) ==
  IF date[3] < DaysInMonth(date[1], date[2]) THEN <<date[1], date[2], date[3] + 1>>
  ELSE IF date[2] < 12 THEN <<date[1], date[2] + 1, 1>>
  ELSE <<date[1] + 1, 1, 1>>

\* n written with at least w digits
Written(n, w) ==
  LET digits == [k \in 1..4 |-> Digits[((n \div (10 ^ (4 - k))) % 10) + 1]]
  IN  SubSeq(digits, 5 - w, 4)

\* INV-DDMMYYYY of a calendar day
InvoiceOf(date) ==
  <<"I", "N", "V", "-">> \o Written(date[3], 2) \o Written(date[2], 2)
    \o Written(date[1], 4)

\* C23 (TransactionIndex.tsx, part_001, part_002): the invoice number of a
\* transaction created at a UTC instant is INV-DDMMYYYY of the next calendar
\* day when the UTC time of day is 17:00 or later, and of the same calendar
\* day otherwise.
C23_InvoiceNumberIsWibDate ==
  \A k \in 1..Len(transactions) :
    LET created == transactions[k].created_at
        utcDay == <<created.year, created.month, created.day>>
    IN  impl \in {TxIndex, Part001} =>
          transactions[k].invoice_number =
            InvoiceOf(IF created.hour >= 17 THEN NextDay(utcDay) ELSE utcDay)

\* Scenario E: 2025-01-05T20:30:00Z is listed as INV-06012025
C23_Witness ==
  /\ Len(transactions) = 1
  /\ transactions[1].created_at =
       [year |-> 2025, month |-> 1, day |-> 5, hour |-> 20, minute |-> 30]
  /\ transactions[1].invoice_number =
       <<"I", "N", "V", "-", "0", "6", "0", "1", "2", "0", "2", "5">>


\* C24 (TransactionIndex.tsx, part_001): what a screen lists for a stored
\* timestamp (whether the transaction passes the date filter, its invoice
\* number and its display date) and the date it queries by are the same on
\* devices of every time zone.
C24_DatesIndependentOfTimeZone ==
  [][requests' # requests /\ requests' # <<>> =>
       \A zone \in Zones :
         transactions' = listed(impl, requests'[1].result, filterDate, zone)
    ]_vars


\* C25 (part_004, TransactionCreate.tsx): in the catalog a load has listed no
\* two units have the same unit_code, whatever sub-units the products have:
\* with a unit_code, without one, or none at all.
C25_UnitCodesUnique ==
  impl \in Impls =>
    \A j, k \in 1..Len(products) :
      j # k => products[j].unit_code # products[k].unit_code


\* C26 (part_004, TransactionCreate.tsx): in every state of the
\* transaction-creation screen, also after an item was removed from a cart
\* that has an accepted override, the displayed total is at most the
\* displayed subtotal.
C26_TotalAtMostSubtotal ==
  calculateTotal(impl, rendered.cart, newTotal)
    <= calculateSubtotal(impl, rendered.cart)


\* C27 (part_004, TransactionCreate.tsx): whatever the override field holds,
\* the displayed discount and the displayed total add up to the displayed
\* subtotal.
C27_DiscountPlusTotalIsSubtotal ==
  calculateDiscount(impl, rendered.cart, newTotal)
      + calculateTotal(impl, rendered.cart, newTotal)
    = calculateSubtotal(impl, rendered.cart)


\* C28 (part_004): from the start of a submission until its response has been
\* handled the submit control is disabled, so that no second POST can be
\* started, also when a catalog load starts or finishes in between.
C28_SubmitDisabledWhileSubmitting ==
  pc # "idle" => submitDisabled


\* a call of fetchAllProducts is awaiting the token, a page or a retry
Fetching(l) == load[l].pc \in {"token", "page", "pause"}

\* the call has run to its end, cache included, and its last page arrived
Completed(l) ==
  /\ load[l].pc = "idle"
  /\ requestsOf(l) # <<>>
  /\ requestsOf(l)[Len(requestsOf(l))].result = "ok"

\* isLoading is set while a call is awaited
LoadingWhileAnyInFlight == (\E l \in LoadIds : Fetching(l)) => loading

\* once the call started last has completed, the earlier call changes
\* neither the catalog nor the cached catalog
LastStartedWins ==
  Completed("second") => /\ products' = products
                         /\ cache'.products = cache.products

\* C29 (Inventory.tsx): of two calls of fetchAllProducts that overlap, the
\* catalog and the cache are left as the call started last leaves them, and
\* isLoading is set as long as one of the two is awaited.
C29_LastStartedLoadWins ==
  [][LoadingWhileAnyInFlight' /\ LastStartedWins]_vars


\* C30 (Inventory.tsx): the page shown lies between 1 and max(1, totalPages),
\* totalPages being ceil(filteredProducts.length / 20): after the saved view
\* was restored on focus, after a reload or a delete, after next and previous.
C30_CurrentPageWithinPages ==
  /\ 1 <= currentPage
  /\ currentPage <= Max(1, totalPages(filteredNow))

====
